---- MODULE Spec2Model ----
(***************************************************************************)
(* Model of the mongodhara front-end data-access core: the transport layer *)
(* (lib/stores/api), the error overlay store, the document / GridFS file   *)
(* list view (routes/[db]/[item]) and the database-level view with its     *)
(* CollectionsView / GridFSView children.                                  *)
(*                                                                         *)
(* Every asynchronous function is modelled by the network call it awaits:  *)
(* the call is issued by the handler and stays pending, in issue order,    *)
(* until the server's response is delivered; the delivery step runs the    *)
(* continuation of the awaiting function up to its next await or its end.  *)
(*                                                                         *)
(* Specifications: Spec (view of a collection), SpecFiles (view of a       *)
(* GridFS bucket), SpecTransport (the transport functions on their own),   *)
(* SpecDb (database-level view), SpecOverlay, SpecNotifications, SpecPage, *)
(* SpecQuery, SpecEditor, SpecDelete and SpecCreate (parts of the views),   *)
(* SpecKeys, SpecViewable and SpecUrl (functions applied on their own).     *)
(***************************************************************************)
EXTENDS Integers, Sequences, FiniteSets, TLC

(* ---------------------------------------------------------------------- *)
(* Bounds of the model                                                     *)
(* ---------------------------------------------------------------------- *)
MaxInflight == 2       \* network calls pending at the same time
MaxMutations == 1      \* deletes, creates, updates and uploads sent in one behaviour
MaxCalls == 3          \* requests the user's actions start in one behaviour
MaxPageInput == 3      \* largest number typed into a page input

(* ---------------------------------------------------------------------- *)
(* Program constants                                                       *)
(* ---------------------------------------------------------------------- *)
pageSize == 12
dbPageSize == 16

None == "null"

ItemTypes == {"collection", "gridfs"}
Keys == {"_id", "age"}
DocIds == {"d1", "d2"}
\* texts typed into the query box: empty, a JSON object, not JSON
QueryTerms == {"", "{\"status\":\"active\"}", "oops"}
MetaTexts == {"", "{\"k\":1}", "oops"}
\* document counts the server may hold when the view is opened
InitCounts == {0, 13}

Max(a, b) == IF a >= b THEN a ELSE b
Min(a, b) == IF a <= b THEN a ELSE b
\* Math.ceil(total / size)
Ceil(total, size) == (total + size - 1) \div size

(* ---------------------------------------------------------------------- *)
(* Server replies                                                          *)
(* ---------------------------------------------------------------------- *)
\* status 0 stands for fetch() itself rejecting (no response received)
Replies ==
    {[status |-> 200, body |-> b] : b \in {"data", "nodata"}} \cup
    {[status |-> 401, body |-> "detail"]} \cup
    {[status |-> s, body |-> b] : s \in {500}, b \in {"detail", "nodetail", "notjson"}} \cup
    {[status |-> 0, body |-> "none"]}

\* replies the transport functions are exercised with on their own
TransportReplies ==
    {[status |-> s, body |-> b] : s \in {200, 400, 401, 404, 500},
                                  b \in {"detail", "nodetail", "notjson"}} \cup
    {[status |-> 0, body |-> "none"]}

IsOk(status) == status >= 200 /\ status <= 299

StatusText(status) ==
    CASE status = 404 -> "Not Found"
      [] status = 400 -> "Bad Request"
      [] status = 500 -> "Internal Server Error"
      [] status = 401 -> "Unauthorized"
      [] OTHER -> "OK"

(* ---------------------------------------------------------------------- *)
(* State                                                                   *)
(* ---------------------------------------------------------------------- *)
VARIABLES
    \* document / file list view (routes/[db]/[item])
    itemType, mounted, queryTerm, currentPage, sortField, sortOrder,
    documentsResponse, loading, error, isTableLoading,
    showDeleteModal, docToDelete, deleteModalLoading,
    showEditorSidebar,
    showUploadModal, selectedFile, uploadMetadata, isUploading, uploadModalLoading,
    downloadingFileId, viewingFileId,
    \* database-level view (routes/[db]) and its CollectionsView / GridFSView
    carouselIndex, dbCurrentPage, dbSearchTerm,
    viewPage, viewLoading, viewError, listResponse,
    \* process-wide stores
    errorOverlayState,
    \* notification queue (lib/stores/notifications), the clock Date.now()
    \* reads and the removal timers that setTimeout has scheduled
    notifications, clock, timers, added, storeOp,
    \* the create dialog of the database-level view's child: showCreateModal /
    \* showCreateBucketModal, newCollectionName / newBucketName, and the
    \* selectedFile and bucketMetadataString of GridFSView, and the isLoading
    \* of the Modal instance that renders the dialog
    showCreateModal, newCollectionName, bucketFile, bucketMetadataString, isLoading,
    \* the argument and the result of a function that is applied on its own
    input, output,
    \* network and server
    inflight, mutations, calls, serverCount,
    \* history: the listing fetch issued last, the one that wrote the visible
    \* result set last, the transport call settled by this step and the
    \* notifications added by this step
    lastFetch, shown, tr, emitted

queryVars == <<queryTerm, currentPage, sortField, sortOrder>>
resultVars == <<documentsResponse, shown>>
flagVars == <<loading, error, isTableLoading>>
deleteVars == <<showDeleteModal, docToDelete, deleteModalLoading>>
uploadVars == <<showUploadModal, selectedFile, uploadMetadata, isUploading, uploadModalLoading>>
fileVars == <<downloadingFileId, viewingFileId>>
netVars == <<inflight, mutations, calls, lastFetch>>
storeVars == <<notifications, clock, timers, added, storeOp>>
pureVars == <<input, output>>
createVars == <<showCreateModal, newCollectionName, bucketFile, bucketMetadataString, isLoading>>
dbVars == <<carouselIndex, dbCurrentPage, dbSearchTerm, viewPage, viewLoading, viewError,
            listResponse>>

vars == <<storeVars, pureVars, createVars, dbVars, itemType, mounted, queryVars, resultVars, flagVars, deleteVars,
          showEditorSidebar, uploadVars, fileVars, errorOverlayState, netVars,
          serverCount, tr, emitted>>

(* ---------------------------------------------------------------------- *)
(* Transport layer (lib/stores/api.ts)                                     *)
(* A transport function applied to the server's reply: whether the promise *)
(* resolves or rejects, the message of the Error, whether triggerAuthError *)
(* ran, and whether the body of the response was read.                     *)
(* ---------------------------------------------------------------------- *)
AuthReject(status) ==
    [outcome |-> "reject", msg |-> [kind |-> "auth", method |-> "", status |-> status],
     auth |-> TRUE, bodyRead |-> FALSE]

NetworkReject ==
    [outcome |-> "reject", msg |-> [kind |-> "network", method |-> "", status |-> 0],
     auth |-> FALSE, bodyRead |-> FALSE]

ParseReject(status) ==
    [outcome |-> "reject", msg |-> [kind |-> "parse", method |-> "", status |-> status],
     auth |-> FALSE, bodyRead |-> TRUE]

\* data.detail || `${label} ${path} failed: ${res.status} ${res.statusText}`
ErrorReject(label, reply) ==
    [outcome |-> "reject",
     msg |-> IF reply.body = "detail"
             THEN [kind |-> "detail", method |-> "", status |-> reply.status]
             ELSE [kind |-> "generic", method |-> label, status |-> reply.status],
     auth |-> FALSE, bodyRead |-> TRUE]

Resolve(reply) ==
    [outcome |-> "resolve", msg |-> [kind |-> "none", method |-> "", status |-> reply.status],
     auth |-> FALSE, bodyRead |-> TRUE]

apiGet(reply) ==
    IF reply.status = 0 THEN NetworkReject
    ELSE IF reply.status = 401 THEN AuthReject(reply.status)
    ELSE IF reply.body = "notjson" THEN ParseReject(reply.status)
    ELSE IF ~IsOk(reply.status) THEN ErrorReject("GET", reply)
    ELSE Resolve(reply)

apiPost(reply) ==
    IF reply.status = 0 THEN NetworkReject
    ELSE IF reply.status = 401 THEN AuthReject(reply.status)
    ELSE IF reply.body = "notjson" THEN ParseReject(reply.status)
    ELSE IF ~IsOk(reply.status) THEN ErrorReject("POST", reply)
    ELSE Resolve(reply)

apiPut(reply) ==
    IF reply.status = 0 THEN NetworkReject
    ELSE IF reply.status = 401 THEN AuthReject(reply.status)
    ELSE IF reply.body = "notjson" THEN ParseReject(reply.status)
    ELSE IF ~IsOk(reply.status) THEN ErrorReject("PUT", reply)
    ELSE Resolve(reply)

apiDelete(reply) ==
    IF reply.status = 0 THEN NetworkReject
    ELSE IF reply.status = 401 THEN AuthReject(reply.status)
    ELSE IF reply.body = "notjson" THEN ParseReject(reply.status)
    ELSE IF ~IsOk(reply.status) THEN ErrorReject("DELETE", reply)
    ELSE Resolve(reply)

apiUploadFile(reply) ==
    IF reply.status = 0 THEN NetworkReject
    ELSE IF reply.status = 401 THEN AuthReject(reply.status)
    ELSE IF reply.body = "notjson" THEN ParseReject(reply.status)
    ELSE IF ~IsOk(reply.status) THEN ErrorReject("UPLOAD", reply)
    ELSE Resolve(reply)

\* the error body is parsed only when !res.ok; a 2xx body is read by res.blob()
apiDownload(reply) ==
    IF reply.status = 0 THEN NetworkReject
    ELSE IF reply.status = 401 THEN AuthReject(reply.status)
    ELSE IF ~IsOk(reply.status)
         THEN IF reply.body = "notjson" THEN ParseReject(reply.status)
              ELSE ErrorReject("DOWNLOAD", reply)
    ELSE Resolve(reply)

\* apiDownloadText without the check of status 401
apiDownloadText_NoAuthCheck(reply) ==
    IF reply.status = 0 THEN NetworkReject
    ELSE IF ~IsOk(reply.status)
         THEN IF reply.body = "notjson" THEN ParseReject(reply.status)
              ELSE ErrorReject("DOWNLOAD", reply)
    ELSE Resolve(reply)

apiDownloadText(reply) ==
    IF reply.status = 0 THEN NetworkReject
    ELSE IF reply.status = 401 THEN AuthReject(reply.status)
    ELSE IF ~IsOk(reply.status)
         THEN IF reply.body = "notjson" THEN ParseReject(reply.status)
              ELSE ErrorReject("DOWNLOAD", reply)
    ELSE Resolve(reply)

Ops == {"get", "post", "put", "delete", "upload", "downloadBlob", "downloadText"}

\* the transport function of each operation applied to a reply
ApiOf(op, reply) ==
    CASE op = "get" -> apiGet(reply)
      [] op = "post" -> apiPost(reply)
      [] op = "put" -> apiPut(reply)
      [] op = "delete" -> apiDelete(reply)
      [] op = "upload" -> apiUploadFile(reply)
      [] op = "downloadBlob" -> apiDownload(reply)
      [] op = "downloadText" -> apiDownloadText(reply)

\* the transport operation each kind of call of the views goes through
OpOf(kind) ==
    CASE kind \in {"query", "create"} -> "post"
      [] kind = "update" -> "put"
      [] kind = "delete" -> "delete"
      [] kind \in {"files", "collections", "buckets"} -> "get"
      [] kind = "upload" -> "upload"
      [] kind = "download" -> "downloadBlob"
      [] kind = "downloadText" -> "downloadText"

Transport(kind, reply) == ApiOf(OpOf(kind), reply)

(* ---------------------------------------------------------------------- *)
(* Error overlay store (lib/stores/error-overlay.ts)                       *)
(* ---------------------------------------------------------------------- *)
InitialOverlay == [visible |-> FALSE, errorType |-> "unknown", statusCode |-> 0]

triggerAuthError(status) == [visible |-> TRUE, errorType |-> "auth", statusCode |-> status]

triggerNetworkError == [visible |-> TRUE, errorType |-> "network", statusCode |-> 0]

triggerServerError(statusCode) ==
    [visible |-> TRUE, errorType |-> "server", statusCode |-> statusCode]

triggerUnknownError == [visible |-> TRUE, errorType |-> "unknown", statusCode |-> 0]

\* exported by the store; no module of the program calls it
hideErrorOverlay == [visible |-> FALSE, errorType |-> "unknown", statusCode |-> 0]

\* OverlayAfter showing the server category for a 5xx response
OverlayAfter_ServerError(r, status) ==
    IF r.auth THEN triggerAuthError(status)
    ELSE IF status >= 500 THEN triggerServerError(status)
    ELSE errorOverlayState

\* OverlayAfter hiding the overlay when a call succeeds
OverlayAfter_HideOnSuccess(r, status) ==
    IF r.auth THEN triggerAuthError(status)
    ELSE IF r.outcome = "resolve" THEN hideErrorOverlay
    ELSE errorOverlayState

\* the overlay after a transport call settled with result r
OverlayAfter(r, status) == IF r.auth THEN triggerAuthError(status) ELSE errorOverlayState

NoMessage == [kind |-> "none", method |-> "", status |-> 0]
NoCall ==
    [op |-> "none", status |-> 0, body |-> "none", outcome |-> "none", msg |-> NoMessage,
     auth |-> FALSE, bodyRead |-> FALSE]
CallEvent(op, reply, r) ==
    [op |-> op, status |-> reply.status, body |-> reply.body, outcome |-> r.outcome,
     msg |-> r.msg, auth |-> r.auth, bodyRead |-> r.bodyRead]

\* the store operation of this step: none, an addNotification ("add"), or a
\* removeNotification(id) run by a timer ("timer") or by a click ("dismiss"),
\* with the id it was given and the queue it was applied to
NoStoreOp == [op |-> "none", id |-> 0, before |-> <<>>]

\* a notification: addNotification(message, type)
Note(message, type) == [message |-> message, type |-> type]
ErrorNote(r) == Note(<<"error", r.msg.kind, r.msg.method>>, "error")

(* ---------------------------------------------------------------------- *)
(* Document / file list view: helpers                                      *)
(* ---------------------------------------------------------------------- *)
\* JSON.parse(queryTerm) succeeds
ParsesAsJson(term) == term \notin {"", "oops"}

\* the kind of value JSON.parse(text) returns
JsonKind(text) ==
    CASE text \in {"", "oops"} -> "invalid"
      [] text \in {"[]", "[1]"} -> "array"
      [] text = "5" -> "number"
      [] text \in {"\"\"", "\"abc\""} -> "string"
      [] text = "true" -> "boolean"
      [] text = "null" -> "null"
      [] OTHER -> "object"

\* Object.keys(JSON.parse(text)).length: the keys of an object, the indices
\* of an array or of a string, none for a number or a boolean
KeyCount(text) ==
    CASE text \in {"{}", "[]", "5", "true", "\"\""} -> 0
      [] text = "\"abc\"" -> 3
      [] OTHER -> 1

\* QueryInvalid without the check of the query text
QueryInvalid_Never(type, term) == FALSE

\* fetchDocuments returns before any request: the text is not empty and
\* JSON.parse throws, or Object.keys throws on null
QueryInvalid(type, term) ==
    type = "collection" /\ term # "" /\ (~ParsesAsJson(term) \/ JsonKind(term) = "null")

\* body.filter: the parsed text when it has keys, {} otherwise
FilterOf(term) ==
    IF term # "" /\ ParsesAsJson(term) /\ KeyCount(term) > 0 THEN term ELSE "{}"

\* $: totalPages = Math.ceil(documentsResponse.total / pageSize)
totalPages == Ceil(documentsResponse.total, pageSize)

\* number of items the server returns for a page of `size` out of `count`
PageItems(count, page, size) ==
    IF page < 1 THEN 0 ELSE Max(0, Min(size, count - (page - 1) * size))

\* documentsResponse: docs is the number of items of the page
EmptyResponse == [docs |-> 0, total |-> 0, page |-> 1]

\* a listing request: its parameters and the function that awaited fetchData;
\* page 0: no request yet
NoFetch == [page |-> 0, filter |-> "{}", sf |-> None, so |-> 0, outer |-> "none"]
FetchTag(c) ==
    [page |-> c.page, filter |-> c.filter, sf |-> c.sf, so |-> c.so, outer |-> c.outer]

\* a pending call: the awaited request and the function that awaits the
\* function awaiting it (outer)
Call(kind, outer, page, filter, sf, so, target) ==
    [kind |-> kind, outer |-> outer, page |-> page, filter |-> filter,
     sf |-> sf, so |-> so, target |-> target]

\* the sequence q without its i-th element
RemoveAt(q, i) == SubSeq(q, 1, i - 1) \o SubSeq(q, i + 1, Len(q))

FetchKinds == {"query", "files"}
MutationKinds == {"delete", "create", "update", "upload"}

CanIssue == Len(inflight) < MaxInflight /\ calls < MaxCalls
CanMutate == CanIssue /\ mutations < MaxMutations

\* the table (headers and rows) is rendered
TableVisible == ~loading /\ ~error /\ documentsResponse.docs > 0

(* ---------------------------------------------------------------------- *)
(* fetchData / fetchDocuments / fetchGridFSFiles up to the awaited request  *)
(* `pre` are the notifications the caller added before, `base` the pending *)
(* calls without the one whose continuation is running.  The handler has   *)
(* assigned queryTerm', currentPage', sortField', sortOrder' before.        *)
(* ---------------------------------------------------------------------- *)
FetchIssued == ~QueryInvalid(itemType, queryTerm')

\* fetchData whose request never carries sort_field / sort_order
fetchData_NoSort(isInitialLoad, outer, pre, base) ==
    LET c == IF itemType = "collection"
             THEN Call("query", outer, currentPage', FilterOf(queryTerm'), None, 0, None)
             ELSE Call("files", outer, currentPage', "{}", None, 0, None)
    IN /\ error' = IF isInitialLoad THEN FALSE ELSE error
       /\ UNCHANGED mutations
       /\ calls' = IF outer = "none" THEN calls + 1 ELSE calls
       /\ IF FetchIssued
          THEN /\ loading' = IF isInitialLoad THEN TRUE ELSE loading
               /\ isTableLoading' = IF isInitialLoad THEN isTableLoading ELSE TRUE
               /\ inflight' = Append(base, c)
               /\ lastFetch' = FetchTag(c)
               /\ emitted' = pre
          ELSE /\ loading' = FALSE
               /\ isTableLoading' = FALSE
               /\ inflight' = base
               /\ UNCHANGED lastFetch
               /\ emitted' = Append(pre, Note(<<"Invalid JSON query.">>, "error"))

fetchData(isInitialLoad, outer, pre, base) ==
    LET withSort == sortField' # None /\ sortOrder' # 0
        c == IF itemType = "collection"
             THEN Call("query", outer, currentPage', FilterOf(queryTerm'),
                       IF withSort THEN sortField' ELSE None,
                       IF withSort THEN sortOrder' ELSE 0, None)
             ELSE Call("files", outer, currentPage', "{}", None, 0, None)
    IN /\ error' = IF isInitialLoad THEN FALSE ELSE error
       /\ UNCHANGED mutations
       /\ calls' = IF outer = "none" THEN calls + 1 ELSE calls
       /\ IF FetchIssued
          THEN /\ loading' = IF isInitialLoad THEN TRUE ELSE loading
               /\ isTableLoading' = IF isInitialLoad THEN isTableLoading ELSE TRUE
               /\ inflight' = Append(base, c)
               /\ lastFetch' = FetchTag(c)
               /\ emitted' = pre
          ELSE \* "Invalid JSON query.": fetchDocuments returns, finally runs
               /\ loading' = FALSE
               /\ isTableLoading' = FALSE
               /\ inflight' = base
               /\ UNCHANGED lastFetch
               /\ emitted' = Append(pre, Note(<<"Invalid JSON query.">>, "error"))

(* ---------------------------------------------------------------------- *)
(* Initial state: the view constructed, before onMount                     *)
(* ---------------------------------------------------------------------- *)
ConstructedState ==
    /\ mounted = FALSE
    /\ queryTerm = ""
    /\ currentPage = 1
    /\ sortField = None
    /\ sortOrder = 0
    /\ documentsResponse = EmptyResponse
    /\ loading = TRUE
    /\ error = FALSE
    /\ isTableLoading = FALSE
    /\ showDeleteModal = FALSE
    /\ docToDelete = None
    /\ deleteModalLoading = FALSE
    /\ showEditorSidebar = FALSE
    /\ showUploadModal = FALSE
    /\ selectedFile = FALSE
    /\ uploadMetadata = ""
    /\ isUploading = FALSE
    /\ uploadModalLoading = FALSE
    /\ downloadingFileId = None
    /\ viewingFileId = None
    /\ dbCurrentPage = 1
    /\ dbSearchTerm = ""
    /\ viewPage = 1
    /\ viewLoading = FALSE
    /\ viewError = FALSE
    /\ listResponse = EmptyResponse
    /\ showCreateModal = FALSE
    /\ newCollectionName = ""
    /\ bucketFile = FALSE
    /\ bucketMetadataString = ""
    /\ isLoading = FALSE
    /\ errorOverlayState = InitialOverlay
    /\ notifications = <<>>
    /\ clock = 0
    /\ timers = <<>>
    /\ added = 0
    /\ storeOp = NoStoreOp
    /\ inflight = <<>>
    /\ mutations = 0
    /\ calls = 0
    /\ lastFetch = NoFetch
    /\ shown = NoFetch
    /\ tr = NoCall
    /\ emitted = <<>>

\* no function is being applied on its own
Constructed == ConstructedState /\ input = None /\ output = None

InitView(type) ==
    /\ Constructed
    /\ itemType = type
    /\ carouselIndex = 0
    /\ serverCount \in InitCounts

\* what a step that settles no transport call leaves alone
NoTransport == tr' = NoCall /\ UNCHANGED <<errorOverlayState, serverCount>>

(* ---------------------------------------------------------------------- *)
(* Handlers of the document / file list view                               *)
(* ---------------------------------------------------------------------- *)
\* onMount(() => fetchData(true))
Mount ==
    /\ ~mounted
    /\ mounted' = TRUE
    /\ UNCHANGED <<storeVars, pureVars, createVars, dbVars, itemType, queryVars, resultVars, deleteVars, showEditorSidebar, uploadVars, fileVars>>
    /\ fetchData(TRUE, "none", <<>>, inflight)
    /\ NoTransport

\* bind:value={queryTerm}
TypeQuery(t) ==
    /\ mounted
    /\ t # queryTerm
    /\ queryTerm' = t
    /\ emitted' = <<>>
    /\ UNCHANGED <<storeVars, pureVars, createVars, dbVars, itemType, mounted, currentPage, sortField, sortOrder, resultVars, flagVars,
                   deleteVars, showEditorSidebar, uploadVars, fileVars, netVars>>
    /\ NoTransport

\* handleQuerySubmit forgetting currentPage = 1
handleQuerySubmit_KeepPage ==
    /\ mounted
    /\ CanIssue
    /\ currentPage' = currentPage
    /\ UNCHANGED <<queryTerm, sortField, sortOrder>>
    /\ UNCHANGED <<storeVars, pureVars, createVars, dbVars, itemType, mounted, resultVars, deleteVars, showEditorSidebar, uploadVars, fileVars>>
    /\ fetchData(FALSE, "none", <<>>, inflight)
    /\ NoTransport

handleQuerySubmit ==
    /\ mounted
    /\ CanIssue
    /\ currentPage' = 1
    /\ UNCHANGED <<queryTerm, sortField, sortOrder>>
    /\ UNCHANGED <<storeVars, pureVars, createVars, dbVars, itemType, mounted, resultVars, deleteVars, showEditorSidebar, uploadVars, fileVars>>
    /\ fetchData(FALSE, "none", <<>>, inflight)
    /\ NoTransport

\* handleHeaderSort never toggling to descending
handleHeaderSort_NoFlip(key) ==
    /\ mounted
    /\ TableVisible
    /\ CanIssue
    /\ sortField' = key
    /\ sortOrder' = 1
    /\ currentPage' = 1
    /\ UNCHANGED queryTerm
    /\ UNCHANGED <<storeVars, pureVars, createVars, dbVars, itemType, mounted, resultVars, deleteVars, showEditorSidebar, uploadVars, fileVars>>
    /\ fetchData(FALSE, "none", <<>>, inflight)
    /\ NoTransport

handleHeaderSort(key) ==
    /\ mounted
    /\ TableVisible
    /\ CanIssue
    /\ IF sortField = key
       THEN /\ sortOrder' = IF sortOrder = 1 THEN -1 ELSE 1
            /\ sortField' = sortField
       ELSE /\ sortField' = key
            /\ sortOrder' = 1
    /\ currentPage' = 1
    /\ UNCHANGED queryTerm
    /\ UNCHANGED <<storeVars, pureVars, createVars, dbVars, itemType, mounted, resultVars, deleteVars, showEditorSidebar, uploadVars, fileVars>>
    /\ fetchData(FALSE, "none", <<>>, inflight)
    /\ NoTransport

handlePageChange(page) ==
    /\ CanIssue
    /\ currentPage' = page
    /\ UNCHANGED <<queryTerm, sortField, sortOrder>>
    /\ UNCHANGED <<storeVars, pureVars, createVars, dbVars, itemType, mounted, resultVars, deleteVars, showEditorSidebar, uploadVars, fileVars>>
    /\ fetchData(FALSE, "none", <<>>, inflight)
    /\ NoTransport

\* SearchAndPagination: the page input dispatches pageChange only in range
handlePageInput(value) ==
    /\ mounted
    /\ value > 0 /\ value <= totalPages
    /\ handlePageChange(value)

\* SearchAndPagination: loading = {loading || isTableLoading} disables the buttons
PaginationLoading == loading \/ isTableLoading

handleNextPage ==
    /\ mounted
    /\ ~(currentPage >= totalPages \/ PaginationLoading)
    /\ currentPage < totalPages
    /\ handlePageChange(currentPage + 1)

handlePrevPage ==
    /\ mounted
    /\ ~(currentPage = 1 \/ PaginationLoading)
    /\ currentPage > 1
    /\ handlePageChange(currentPage - 1)

handleFirstPage ==
    /\ mounted
    /\ ~(currentPage = 1 \/ PaginationLoading)
    /\ currentPage # 1
    /\ handlePageChange(1)

handleLastPage ==
    /\ mounted
    /\ ~(currentPage >= totalPages \/ PaginationLoading)
    /\ currentPage # totalPages
    /\ handlePageChange(totalPages)

\* handleDeleteClick sending the delete at once, without the confirmation
handleDeleteClick_DeletesAtOnce(doc) ==
    /\ mounted
    /\ TableVisible
    /\ CanMutate
    /\ UNCHANGED deleteVars
    /\ inflight' = Append(inflight, Call("delete", "none", 0, "{}", None, 0, doc))
    /\ mutations' = mutations + 1
    /\ calls' = calls + 1
    /\ UNCHANGED lastFetch
    /\ emitted' = <<>>
    /\ UNCHANGED <<storeVars, pureVars, createVars, dbVars, itemType, mounted, queryVars, resultVars, flagVars, showEditorSidebar,
                   uploadVars, fileVars>>
    /\ NoTransport

handleDeleteClick(doc) ==
    /\ mounted
    /\ TableVisible
    /\ showDeleteModal' = TRUE
    /\ docToDelete' = doc
    /\ UNCHANGED deleteModalLoading
    /\ emitted' = <<>>
    /\ UNCHANGED <<storeVars, pureVars, createVars, dbVars, itemType, mounted, queryVars, resultVars, flagVars, showEditorSidebar,
                   uploadVars, fileVars, netVars>>
    /\ NoTransport

\* Modal.handleConfirm -> confirmDelete, up to await api.apiDelete(...)
confirmDelete ==
    /\ showDeleteModal
    /\ ~deleteModalLoading
    /\ CanMutate
    /\ IF docToDelete = None
       THEN \* if (!docToDelete) return; the dialog's finally clears isLoading
            /\ UNCHANGED <<deleteVars, netVars>>
       ELSE /\ deleteModalLoading' = TRUE
            /\ UNCHANGED <<showDeleteModal, docToDelete>>
            /\ inflight' = Append(inflight,
                 Call("delete", "none", 0, "{}", None, 0, docToDelete))
            /\ mutations' = mutations + 1
            /\ calls' = calls + 1
            /\ UNCHANGED lastFetch
    /\ emitted' = <<>>
    /\ UNCHANGED <<storeVars, pureVars, createVars, dbVars, itemType, mounted, queryVars, resultVars, flagVars, showEditorSidebar, uploadVars, fileVars>>
    /\ NoTransport

\* cancelDelete that closes the confirmation and keeps the target
cancelDelete_KeepsTarget ==
    /\ showDeleteModal
    /\ showDeleteModal' = FALSE
    /\ docToDelete' = docToDelete
    /\ deleteModalLoading' = FALSE
    /\ emitted' = <<>>
    /\ UNCHANGED <<storeVars, pureVars, createVars, dbVars, itemType, mounted, queryVars, resultVars, flagVars, showEditorSidebar,
                   uploadVars, fileVars, netVars>>
    /\ NoTransport

\* the Cancel button is disabled while the dialog is loading; the close
\* button of the header and the backdrop are not
cancelDelete ==
    /\ showDeleteModal
    /\ showDeleteModal' = FALSE
    /\ docToDelete' = None
    /\ deleteModalLoading' = FALSE
    /\ emitted' = <<>>
    /\ UNCHANGED <<storeVars, pureVars, createVars, dbVars, itemType, mounted, queryVars, resultVars, flagVars, showEditorSidebar,
                   uploadVars, fileVars, netVars>>
    /\ NoTransport

\* handleRowClick(doc) and handleNewDocumentClick() open the editor
handleRowClick ==
    /\ mounted
    /\ TableVisible
    /\ showEditorSidebar' = TRUE
    /\ emitted' = <<>>
    /\ UNCHANGED <<storeVars, pureVars, createVars, dbVars, itemType, mounted, queryVars, resultVars, flagVars, deleteVars, uploadVars, fileVars, netVars>>
    /\ NoTransport

handleNewDocumentClick ==
    /\ mounted
    /\ itemType = "collection"
    /\ showEditorSidebar' = TRUE
    /\ emitted' = <<Note(<<"Opening document editor...">>, "info")>>
    /\ UNCHANGED <<storeVars, pureVars, createVars, dbVars, itemType, mounted, queryVars, resultVars, flagVars, deleteVars, uploadVars, fileVars, netVars>>
    /\ NoTransport

\* values of updatedDoc._id in the document the editor hands over: no such
\* field, a falsy value, an identifier
EditorIds == {None, "", "d1"}

\* !updatedDoc._id is false
Truthy(id) == id \notin {None, ""}

\* handleSave without `delete updatedDoc._id`
handleSave_KeepsId(id) ==
    /\ showEditorSidebar
    /\ itemType = "collection"
    /\ CanMutate
    /\ inflight' = Append(inflight,
         Call(IF Truthy(id) THEN "update" ELSE "create", "none", 0, "{}", None, 0, id))
    /\ mutations' = mutations + 1
    /\ calls' = calls + 1
    /\ UNCHANGED lastFetch
    /\ emitted' = <<>>
    /\ UNCHANGED <<storeVars, pureVars, createVars, dbVars, itemType, mounted, queryVars, resultVars, flagVars, deleteVars,
                   showEditorSidebar, uploadVars, fileVars>>
    /\ NoTransport

\* handleSave(event) up to the awaited apiPost / apiPut; id is updatedDoc._id.
\* The target of the call is the _id of the document that is sent: none
\* after `delete updatedDoc._id`
handleSave(id) ==
    /\ showEditorSidebar
    /\ itemType = "collection"
    /\ CanMutate
    /\ inflight' = Append(inflight,
         Call(IF Truthy(id) THEN "update" ELSE "create", "none", 0, "{}", None, 0,
              IF Truthy(id) THEN id ELSE None))
    /\ mutations' = mutations + 1
    /\ calls' = calls + 1
    /\ UNCHANGED lastFetch
    /\ emitted' = <<>>
    /\ UNCHANGED <<storeVars, pureVars, createVars, dbVars, itemType, mounted, queryVars, resultVars, flagVars, deleteVars,
                   showEditorSidebar, uploadVars, fileVars>>
    /\ NoTransport

handleUploadClick ==
    /\ mounted
    /\ itemType = "gridfs"
    /\ ~showUploadModal
    /\ showUploadModal' = TRUE
    /\ UNCHANGED <<selectedFile, uploadMetadata, isUploading, uploadModalLoading>>
    /\ emitted' = <<>>
    /\ UNCHANGED <<storeVars, pureVars, createVars, dbVars, itemType, mounted, queryVars, resultVars, flagVars, deleteVars, fileVars,
                   showEditorSidebar, netVars>>
    /\ NoTransport

\* handleFileSelect and bind:value={uploadMetadata} in the upload dialog
handleFileSelect(meta) ==
    /\ showUploadModal
    /\ ~selectedFile \/ meta # uploadMetadata
    /\ selectedFile' = TRUE
    /\ uploadMetadata' = meta
    /\ UNCHANGED <<showUploadModal, isUploading, uploadModalLoading>>
    /\ emitted' = <<>>
    /\ UNCHANGED <<storeVars, pureVars, createVars, dbVars, itemType, mounted, queryVars, resultVars, flagVars, deleteVars, fileVars,
                   showEditorSidebar, netVars>>
    /\ NoTransport

\* Modal.handleConfirm -> handleFileUpload, up to await api.apiUploadFile(...)
handleFileUpload ==
    /\ showUploadModal
    /\ ~uploadModalLoading
    /\ ~(~selectedFile \/ isUploading)
    /\ CanMutate
    /\ IF uploadMetadata # "" /\ ~ParsesAsJson(uploadMetadata)
       THEN /\ emitted' = <<Note(<<"Invalid JSON in metadata field">>, "error")>>
            /\ isUploading' = FALSE
            /\ uploadModalLoading' = FALSE
            /\ UNCHANGED netVars
       ELSE /\ emitted' = <<>>
            /\ isUploading' = TRUE
            /\ uploadModalLoading' = TRUE
            /\ inflight' = Append(inflight,
                 Call("upload", "none", 0,
                      IF uploadMetadata = "" THEN "{}" ELSE uploadMetadata, None, 0, None))
            /\ mutations' = mutations + 1
            /\ calls' = calls + 1
            /\ UNCHANGED lastFetch
    /\ UNCHANGED <<showUploadModal, selectedFile, uploadMetadata>>
    /\ UNCHANGED <<storeVars, pureVars, createVars, dbVars, itemType, mounted, queryVars, resultVars, flagVars, deleteVars, fileVars, showEditorSidebar>>
    /\ NoTransport

cancelUpload ==
    /\ showUploadModal
    /\ showUploadModal' = FALSE
    /\ selectedFile' = FALSE
    /\ uploadMetadata' = ""
    /\ uploadModalLoading' = FALSE
    /\ UNCHANGED isUploading
    /\ emitted' = <<>>
    /\ UNCHANGED <<storeVars, pureVars, createVars, dbVars, itemType, mounted, queryVars, resultVars, flagVars, deleteVars, fileVars,
                   showEditorSidebar, netVars>>
    /\ NoTransport

\* handleDownloadClick(doc) up to await api.apiDownload(...)
handleDownloadClick(doc) ==
    /\ mounted
    /\ TableVisible
    /\ itemType = "gridfs"
    /\ CanIssue
    /\ downloadingFileId # doc
    /\ downloadingFileId' = doc
    /\ UNCHANGED viewingFileId
    /\ inflight' = Append(inflight, Call("download", "none", 0, "{}", None, 0, doc))
    /\ UNCHANGED <<mutations, lastFetch>>
    /\ calls' = calls + 1
    /\ emitted' = <<Note(<<"Starting download", doc>>, "info")>>
    /\ UNCHANGED <<storeVars, pureVars, createVars, dbVars, itemType, mounted, queryVars, resultVars, flagVars, deleteVars,
                   showEditorSidebar, uploadVars>>
    /\ NoTransport

\* handleViewClick(doc) of a viewable file, up to await api.apiDownloadText(...)
handleViewClick(doc) ==
    /\ mounted
    /\ TableVisible
    /\ itemType = "gridfs"
    /\ CanIssue
    /\ viewingFileId # doc
    /\ viewingFileId' = doc
    /\ UNCHANGED downloadingFileId
    /\ inflight' = Append(inflight, Call("downloadText", "none", 0, "{}", None, 0, doc))
    /\ UNCHANGED <<mutations, lastFetch>>
    /\ calls' = calls + 1
    /\ emitted' = <<Note(<<"Loading file", doc>>, "info")>>
    /\ UNCHANGED <<storeVars, pureVars, createVars, dbVars, itemType, mounted, queryVars, resultVars, flagVars, deleteVars,
                   showEditorSidebar, uploadVars>>
    /\ NoTransport

(* ---------------------------------------------------------------------- *)
(* Server: the request of a pending call is handled when its response is   *)
(* delivered.  A delete answered 2xx removes one item, a create or upload  *)
(* answered 2xx adds one; a listing reports the count and the items of the *)
(* requested page.                                                         *)
(* ---------------------------------------------------------------------- *)
ServerCountAfter(c, reply) ==
    IF ~IsOk(reply.status) THEN serverCount
    ELSE IF c.kind = "delete" THEN serverCount - 1
    ELSE IF c.kind \in {"create", "upload"} THEN serverCount + 1
    ELSE serverCount

\* a delete of an item that is no longer there is not answered 2xx
CanReply(c, reply) == (c.kind = "delete" /\ IsOk(reply.status)) => serverCount > 0

(* ---------------------------------------------------------------------- *)
(* Continuations: the response to the i-th pending call is delivered       *)
(* ---------------------------------------------------------------------- *)
Settle(c, reply, r) ==
    /\ CanReply(c, reply)
    /\ tr' = CallEvent(OpOf(c.kind), reply, r)
    /\ errorOverlayState' = OverlayAfter(r, reply.status)
    /\ serverCount' = ServerCountAfter(c, reply)

\* documentsResponse after fetchDocuments / fetchGridFSFiles got result r
ResponseAfter(c, reply, r) ==
    IF r.outcome = "resolve" /\ reply.body = "data"
    THEN [docs |-> PageItems(serverCount, c.page, pageSize),
          total |-> serverCount, page |-> c.page]
    ELSE EmptyResponse

\* the notifications when fetchData's own catch block ran as well
FetchNotes_OuterCatch(c, reply, r) ==
    IF r.outcome = "reject"
    THEN <<ErrorNote(r), Note(<<"Failed to fetch documents.">>, "error")>>
    ELSE IF reply.body # "data" /\ c.kind = "query"
    THEN <<Note(<<"Unexpected response format from server.">>, "warning")>>
    ELSE <<>>

\* notifications added by fetchDocuments / fetchGridFSFiles after the await
FetchNotes(c, reply, r) ==
    IF r.outcome = "reject" THEN <<ErrorNote(r)>>
    ELSE IF reply.body # "data" /\ c.kind = "query"
    THEN <<Note(<<"Unexpected response format from server.">>, "warning")>>
    ELSE <<>>

\* confirmDelete's finally (and the dialog's), when `done`
FinishDelete(done) ==
    /\ showDeleteModal' = IF done THEN FALSE ELSE showDeleteModal
    /\ docToDelete' = IF done THEN None ELSE docToDelete
    /\ deleteModalLoading' = IF done THEN FALSE ELSE deleteModalLoading

\* fetchDocuments / fetchGridFSFiles after the await, then fetchData's finally,
\* then the rest of the caller that awaited fetchData()
DeliverFetch(i, reply) ==
    /\ i \in 1..Len(inflight) /\ inflight[i].kind \in FetchKinds
    /\ LET c == inflight[i]
           r == Transport(c.kind, reply)
       IN /\ Settle(c, reply, r)
          /\ documentsResponse' = ResponseAfter(c, reply, r)
          /\ shown' = FetchTag(c)
          /\ error' = IF r.outcome = "reject" THEN TRUE ELSE error
          /\ emitted' = FetchNotes(c, reply, r)
          /\ FinishDelete(c.outer = "confirmDelete")
          /\ isUploading' = IF c.outer = "handleFileUpload" THEN FALSE ELSE isUploading
    /\ loading' = FALSE
    /\ isTableLoading' = FALSE
    /\ inflight' = RemoveAt(inflight, i)
    /\ UNCHANGED <<showUploadModal, selectedFile, uploadMetadata, uploadModalLoading>>
    /\ UNCHANGED <<storeVars, pureVars, createVars, dbVars, itemType, mounted, queryVars, showEditorSidebar, fileVars, mutations, calls, lastFetch>>

\* confirmDelete after await api.apiDelete(...)
DeliverDelete(i, reply) ==
    /\ i \in 1..Len(inflight) /\ inflight[i].kind = "delete"
    /\ UNCHANGED <<storeVars, pureVars, createVars, dbVars, itemType, mounted, queryVars, resultVars, showEditorSidebar, uploadVars,
                   fileVars, mutations>>
    /\ LET c == inflight[i]
           r == Transport(c.kind, reply)
       IN /\ Settle(c, reply, r)
          /\ IF r.outcome = "resolve"
             THEN /\ fetchData(FALSE, "confirmDelete",
                               <<Note(<<"deleted successfully", docToDelete>>, "success")>>,
                               RemoveAt(inflight, i))
                  /\ FinishDelete(~FetchIssued)
             ELSE /\ emitted' = <<ErrorNote(r)>>
                  /\ FinishDelete(TRUE)
                  /\ inflight' = RemoveAt(inflight, i)
                  /\ UNCHANGED <<flagVars, calls, lastFetch>>

\* DeliverSave leaving the editor open after a successful save
DeliverSave_KeepsEditor(i, reply) ==
    /\ i \in 1..Len(inflight) /\ inflight[i].kind \in {"create", "update"}
    /\ UNCHANGED <<storeVars, pureVars, createVars, dbVars, itemType, mounted, queryVars, resultVars, deleteVars, uploadVars,
                   fileVars, mutations>>
    /\ LET c == inflight[i]
           r == Transport(c.kind, reply)
       IN /\ Settle(c, reply, r)
          /\ IF r.outcome = "resolve"
             THEN /\ showEditorSidebar' = showEditorSidebar
                  /\ fetchData(FALSE, "handleSave",
                               <<Note(<<IF c.kind = "create"
                                        THEN "New document created successfully."
                                        ELSE "Document updated successfully.">>, "success")>>,
                               RemoveAt(inflight, i))
             ELSE /\ emitted' = <<ErrorNote(r)>>
                  /\ inflight' = RemoveAt(inflight, i)
                  /\ UNCHANGED <<showEditorSidebar, flagVars, calls, lastFetch>>

\* handleSave after await api.apiPost / api.apiPut
DeliverSave(i, reply) ==
    /\ i \in 1..Len(inflight) /\ inflight[i].kind \in {"create", "update"}
    /\ UNCHANGED <<storeVars, pureVars, createVars, dbVars, itemType, mounted, queryVars, resultVars, deleteVars, uploadVars,
                   fileVars, mutations>>
    /\ LET c == inflight[i]
           r == Transport(c.kind, reply)
       IN /\ Settle(c, reply, r)
          /\ IF r.outcome = "resolve"
             THEN /\ showEditorSidebar' = FALSE
                  /\ fetchData(FALSE, "handleSave",
                               <<Note(<<IF c.kind = "create"
                                        THEN "New document created successfully."
                                        ELSE "Document updated successfully.">>, "success")>>,
                               RemoveAt(inflight, i))
             ELSE /\ emitted' = <<ErrorNote(r)>>
                  /\ inflight' = RemoveAt(inflight, i)
                  /\ UNCHANGED <<showEditorSidebar, flagVars, calls, lastFetch>>

\* handleFileUpload after await api.apiUploadFile(...)
DeliverUpload(i, reply) ==
    /\ i \in 1..Len(inflight) /\ inflight[i].kind = "upload"
    /\ UNCHANGED <<storeVars, pureVars, createVars, dbVars, itemType, mounted, queryVars, resultVars, deleteVars, showEditorSidebar,
                   fileVars, mutations>>
    /\ LET c == inflight[i]
           r == Transport(c.kind, reply)
       IN /\ Settle(c, reply, r)
          /\ IF r.outcome = "resolve" /\ selectedFile
             THEN /\ showUploadModal' = FALSE
                  /\ selectedFile' = FALSE
                  /\ uploadMetadata' = ""
                  /\ uploadModalLoading' = FALSE
                  /\ fetchData(FALSE, "handleFileUpload",
                               <<Note(<<"File uploaded successfully">>, "success")>>,
                               RemoveAt(inflight, i))
                  /\ isUploading' = FetchIssued
             ELSE \* the call rejected, or selectedFile.name threw: catch and finally
                  /\ emitted' = <<IF r.outcome = "resolve"
                                  THEN Note(<<"error", "TypeError", "">>, "error")
                                  ELSE ErrorNote(r)>>
                  /\ isUploading' = FALSE
                  /\ uploadModalLoading' = FALSE
                  /\ inflight' = RemoveAt(inflight, i)
                  /\ UNCHANGED <<showUploadModal, selectedFile, uploadMetadata>>
                  /\ UNCHANGED <<flagVars, calls, lastFetch>>

\* handleDownloadClick after await api.apiDownload(...)
DeliverDownload(i, reply) ==
    /\ i \in 1..Len(inflight) /\ inflight[i].kind = "download"
    /\ LET c == inflight[i]
           r == Transport(c.kind, reply)
       IN /\ Settle(c, reply, r)
          /\ emitted' = <<IF r.outcome = "resolve"
                          THEN Note(<<"File downloaded", c.target>>, "success")
                          ELSE ErrorNote(r)>>
    /\ downloadingFileId' = None
    /\ inflight' = RemoveAt(inflight, i)
    /\ UNCHANGED <<storeVars, pureVars, createVars, dbVars, itemType, mounted, queryVars, resultVars, flagVars, deleteVars,
                   showEditorSidebar, uploadVars, viewingFileId, mutations, calls, lastFetch>>

\* handleViewClick after await api.apiDownloadText(...)
DeliverView(i, reply) ==
    /\ i \in 1..Len(inflight) /\ inflight[i].kind = "downloadText"
    /\ LET c == inflight[i]
           r == Transport(c.kind, reply)
       IN /\ Settle(c, reply, r)
          /\ emitted' = IF r.outcome = "resolve" THEN <<>> ELSE <<ErrorNote(r)>>
          /\ showEditorSidebar' = IF r.outcome = "resolve" THEN TRUE ELSE showEditorSidebar
    /\ viewingFileId' = None
    /\ inflight' = RemoveAt(inflight, i)
    /\ UNCHANGED <<storeVars, pureVars, createVars, dbVars, itemType, mounted, queryVars, resultVars, flagVars, deleteVars,
                   uploadVars, downloadingFileId, mutations, calls, lastFetch>>

\* the editor's close button: onClose={() => (showEditorSidebar = false)}
closeEditor ==
    /\ showEditorSidebar
    /\ showEditorSidebar' = FALSE
    /\ emitted' = <<>>
    /\ UNCHANGED <<storeVars, pureVars, createVars, dbVars, itemType, mounted, queryVars, resultVars, flagVars, deleteVars,
                   uploadVars, fileVars, netVars>>
    /\ NoTransport

\* handlers and continuations the two modes of the view share
ListNext ==
    \/ Mount
    \/ \E t \in QueryTerms : TypeQuery(t)
    \/ handleQuerySubmit
    \/ \E key \in Keys : handleHeaderSort(key)
    \/ \E value \in 0..MaxPageInput : handlePageInput(value)
    \/ handleNextPage
    \/ handlePrevPage
    \/ handleFirstPage
    \/ handleLastPage
    \/ \E doc \in DocIds : handleDeleteClick(doc)
    \/ confirmDelete
    \/ cancelDelete
    \/ \E i \in 1..MaxInflight, reply \in Replies : DeliverFetch(i, reply)
    \/ \E i \in 1..MaxInflight, reply \in Replies : DeliverDelete(i, reply)

\* the view of a collection (type=collection)
Init == InitView("collection")

Next ==
    \/ ListNext
    \/ handleRowClick
    \/ handleNewDocumentClick
    \/ \E id \in EditorIds : handleSave(id)
    \/ closeEditor
    \/ \E i \in 1..MaxInflight, reply \in Replies : DeliverSave(i, reply)

Spec == Init /\ [][Next]_vars

(* ---------------------------------------------------------------------- *)
(* Properties of the document list view                                    *)
(* ---------------------------------------------------------------------- *)
FetchInFlight == \E i \in 1..Len(inflight) : inflight[i].kind \in FetchKinds

\* C1: once every listing fetch has settled, the visible result set is the
\* response to the listing call issued last, never to an earlier call.
C1_LastCallWins ==
    (~FetchInFlight /\ lastFetch # NoFetch) => shown = lastFetch

\* C3: while the result of a mutation's refetch is the visible result set and
\* no newer listing call has been issued, the response to an older listing
\* call does not overwrite it.
C3_RefetchSupersedes ==
    [][(shown.outer # "none" /\ shown = lastFetch /\ lastFetch' = lastFetch)
         => shown' = shown]_vars

\* C4: the loading indicator is on in every state in which a listing fetch
\* of the view is in flight.
C4_LoadingWhileInFlight ==
    FetchInFlight => (loading \/ isTableLoading)

\* C5: after the refetch of a confirmed delete has settled with the listing,
\* the page index is a valid page, not a page past the end.
C5_PageValidAfterDelete ==
    (tr.op = "post" /\ tr.outcome = "resolve" /\ shown.outer = "confirmDelete"
       /\ documentsResponse.total > 0)
      => currentPage <= totalPages

\* C6: whenever the total count changes, the page index is inside
\* [1, ceil(total / pageSize)] afterwards (page 1 when there is nothing).
C6_PageClampedOnTotalChange ==
    [][documentsResponse'.total # documentsResponse.total
         => (currentPage' >= 1
             /\ currentPage' <= Max(1, Ceil(documentsResponse'.total, pageSize)))]_vars

\* the view of a GridFS bucket (type=gridfs)
InitFiles == InitView("gridfs")

NextFiles ==
    \/ ListNext
    \/ handleUploadClick
    \/ \E meta \in MetaTexts : handleFileSelect(meta)
    \/ handleFileUpload
    \/ cancelUpload
    \/ \E doc \in DocIds : handleDownloadClick(doc)
    \/ \E doc \in DocIds : handleViewClick(doc)
    \/ closeEditor
    \/ \E i \in 1..MaxInflight, reply \in Replies : DeliverUpload(i, reply)
    \/ \E i \in 1..MaxInflight, reply \in Replies : DeliverDownload(i, reply)
    \/ \E i \in 1..MaxInflight, reply \in Replies : DeliverView(i, reply)

SpecFiles == InitFiles /\ [][NextFiles]_vars

\* the step appended one listing request for page `page` with the given sort
\* and the filter of the query text
FetchAppended(page, sf, so) ==
    /\ Len(inflight') = Len(inflight) + 1
    /\ SubSeq(inflight', 1, Len(inflight)) = inflight
    /\ LET c == inflight'[Len(inflight')]
       IN /\ c.kind = "query"
          /\ c.page = page
          /\ c.sf = sf
          /\ c.so = so
          /\ c.filter = (IF queryTerm' = "" THEN "{}" ELSE queryTerm')

\* the sort after a click on the header of `key`
SortToggled(key) ==
    /\ sortField' = key
    /\ sortField = key /\ sortOrder = 1 => sortOrder' = -1
    /\ sortField = key /\ sortOrder = -1 => sortOrder' = 1
    /\ sortField # key => sortOrder' = 1
    /\ currentPage' = 1

\* the query text is neither empty nor a JSON document
InvalidQueryText == queryTerm # "" /\ ~ParsesAsJson(queryTerm)

Invoke(op, reply) ==
    LET r == ApiOf(op, reply)
    IN /\ tr' = CallEvent(op, reply, r)
       /\ errorOverlayState' = OverlayAfter(r, reply.status)
       /\ emitted' = <<>>
       /\ UNCHANGED <<storeVars, pureVars, createVars, dbVars, itemType, mounted, queryVars, resultVars, flagVars, deleteVars,
                      showEditorSidebar, uploadVars, fileVars, netVars, serverCount>>

CallApiGet(reply) == Invoke("get", reply)
CallApiPost(reply) == Invoke("post", reply)
CallApiPut(reply) == Invoke("put", reply)
CallApiDelete(reply) == Invoke("delete", reply)
CallApiUploadFile(reply) == Invoke("upload", reply)
CallApiDownload(reply) == Invoke("downloadBlob", reply)
CallApiDownloadText(reply) == Invoke("downloadText", reply)

InitTransport == InitView("collection")

NextTransport ==
    \/ \E reply \in TransportReplies : CallApiGet(reply)
    \/ \E reply \in TransportReplies : CallApiPost(reply)
    \/ \E reply \in TransportReplies : CallApiPut(reply)
    \/ \E reply \in TransportReplies : CallApiDelete(reply)
    \/ \E reply \in TransportReplies : CallApiUploadFile(reply)
    \/ \E reply \in TransportReplies : CallApiDownload(reply)
    \/ \E reply \in TransportReplies : CallApiDownloadText(reply)

SpecTransport == InitTransport /\ [][NextTransport]_vars

\* C10: after any transport operation got a response with status 401, the
\* overlay is visible with category auth, the operation has rejected and the
\* body of the response has not been read.
C10_Unauthorized ==
    tr.status = 401
      => (/\ errorOverlayState.visible
          /\ errorOverlayState.errorType = "auth"
          /\ tr.outcome = "reject"
          /\ ~tr.bodyRead)

\* a text download answered 401 after the overlay had not been shown yet
C10_Witness ==
    /\ tr.op = "downloadText" /\ tr.status = 401 /\ tr.outcome = "reject"
    /\ errorOverlayState = triggerAuthError(401)

(* ---------------------------------------------------------------------- *)
(* Database-level view (routes/[db]) with the CollectionsView or GridFSView *)
(* it renders.  The parent passes searchTerm, currentPage and loading down  *)
(* as props; a prop reaches the child when the parent's value changes.      *)
(* ---------------------------------------------------------------------- *)
SearchTerms == {"", " ", "ab"}
\* collections or buckets the database may hold when the view is opened
DbInitCounts == {0, 17}

\* searchTerm.trim()
Trim(term) == IF term = " " THEN "" ELSE term

\* the parent's `loading` is never assigned
dbLoading == FALSE

\* $: totalPages = Math.ceil(response.total / pageSize), bound to the parent
dbTotalPages == Ceil(listResponse.total, dbPageSize)

docViewVars == <<itemType, queryVars, documentsResponse, flagVars, deleteVars,
                 showEditorSidebar, uploadVars, fileVars>>

\* the parent assigns currentPage
SetPage(page) ==
    /\ dbCurrentPage' = page
    /\ viewPage' = IF page # dbCurrentPage THEN page ELSE viewPage

ListCall(kind) ==
    Call(kind, "none", viewPage',
         IF Trim(dbSearchTerm') # "" THEN dbSearchTerm' ELSE None, None, 0, None)

\* CollectionsView.fetchCollections up to await api.apiGet(...)
fetchCollections ==
    /\ viewLoading' = TRUE
    /\ viewError' = FALSE
    /\ inflight' = Append(inflight, ListCall("collections"))
    /\ lastFetch' = FetchTag(ListCall("collections"))

\* GridFSView.fetchGridFSBuckets up to await api.apiGet(...)
fetchGridFSBuckets ==
    /\ viewLoading' = TRUE
    /\ viewError' = FALSE
    /\ inflight' = Append(inflight, ListCall("buckets"))
    /\ lastFetch' = FetchTag(ListCall("buckets"))

\* fetchData() of the parent, called by a handler
dbFetchData ==
    /\ IF carouselIndex = 0 THEN fetchCollections ELSE fetchGridFSBuckets
    /\ calls' = calls + 1
    /\ emitted' = <<>>
    /\ UNCHANGED <<carouselIndex, listResponse, mutations, shown, docViewVars, storeVars, pureVars, createVars>>
    /\ NoTransport

InitDb ==
    /\ Constructed
    /\ itemType = "collection"
    /\ carouselIndex \in {0, 1}
    /\ serverCount \in DbInitCounts

\* onMount(() => fetchData())
DbMount ==
    /\ ~mounted
    /\ mounted' = TRUE
    /\ UNCHANGED <<dbCurrentPage, dbSearchTerm, viewPage>>
    /\ dbFetchData

\* bind:value={searchTerm}
TypeSearch(term) ==
    /\ mounted
    /\ term # dbSearchTerm
    /\ dbSearchTerm' = term
    /\ emitted' = <<>>
    /\ UNCHANGED <<carouselIndex, dbCurrentPage, viewPage, viewLoading, viewError,
                   listResponse, mounted, docViewVars, storeVars, pureVars, createVars, netVars, shown>>
    /\ NoTransport

handleSearchSubmit ==
    /\ mounted
    /\ CanIssue
    /\ SetPage(1)
    /\ UNCHANGED <<dbSearchTerm, mounted>>
    /\ dbFetchData

\* the button that clears the search input
clearSearch ==
    /\ mounted
    /\ CanIssue
    /\ dbSearchTerm # ""
    /\ dbSearchTerm' = ""
    /\ SetPage(1)
    /\ UNCHANGED mounted
    /\ dbFetchData

\* the four page buttons, each enabled as its `disabled` attribute says
changePage(page) ==
    /\ mounted
    /\ CanIssue
    /\ \/ page = 1 /\ ~(dbCurrentPage = 1 \/ dbLoading)
       \/ page = dbCurrentPage - 1 /\ ~(dbCurrentPage = 1 \/ dbLoading)
       \/ page = dbCurrentPage + 1 /\ ~(dbCurrentPage >= dbTotalPages \/ dbLoading)
       \/ page = dbTotalPages /\ ~(dbCurrentPage >= dbTotalPages \/ dbLoading)
    /\ SetPage(page)
    /\ UNCHANGED <<dbSearchTerm, mounted>>
    /\ dbFetchData

\* the page input: bind:value={currentPage} on:change={() => fetchData()}
pageInputChange(value) ==
    /\ mounted
    /\ CanIssue
    /\ SetPage(value)
    /\ UNCHANGED <<dbSearchTerm, mounted>>
    /\ dbFetchData

\* fetchCollections / fetchGridFSBuckets after the await
DeliverList(i, reply) ==
    /\ i \in 1..Len(inflight) /\ inflight[i].kind \in {"collections", "buckets"}
    /\ reply.body # "nodata"
    /\ LET c == inflight[i]
           r == Transport(c.kind, reply)
       IN /\ Settle(c, reply, r)
          /\ listResponse' =
               IF r.outcome = "resolve"
               THEN [docs |-> PageItems(serverCount, c.page, dbPageSize),
                     total |-> serverCount, page |-> c.page]
               ELSE EmptyResponse
          /\ viewError' = IF r.outcome = "reject" THEN TRUE ELSE viewError
          /\ emitted' = IF r.outcome = "reject" THEN <<ErrorNote(r)>> ELSE <<>>
          /\ shown' = FetchTag(c)
    /\ viewLoading' = FALSE
    /\ inflight' = RemoveAt(inflight, i)
    /\ UNCHANGED <<carouselIndex, dbCurrentPage, dbSearchTerm, viewPage, mounted,
                   docViewVars, storeVars, pureVars, createVars, mutations, calls, lastFetch>>

NextDb ==
    \/ DbMount
    \/ \E term \in SearchTerms : TypeSearch(term)
    \/ handleSearchSubmit
    \/ clearSearch
    \/ \E page \in 0..(MaxPageInput + 1) : changePage(page)
    \/ \E value \in 0..MaxPageInput : pageInputChange(value)
    \/ \E i \in 1..MaxInflight, reply \in Replies : DeliverList(i, reply)

SpecDb == InitDb /\ [][NextDb]_vars

\* C2: the response to a listing fetch that a later fetch of the same view
\* has superseded leaves the visible result set as it was.
C2_SupersededDiscarded ==
    [][\A i \in 1..Len(inflight) :
         (/\ i < Len(inflight)
          /\ inflight[i] # inflight[Len(inflight)]
          /\ inflight' = RemoveAt(inflight, i)
          /\ tr'.op = "get")
           => (listResponse' = listResponse /\ shown' = shown)]_vars

\* C7: a page number outside 1..totalPages entered in the page input does
\* not become the current page and no fetch is issued for it.
C7_OutOfRangeRejected ==
    [][\A value \in 0..MaxPageInput :
         (pageInputChange(value) /\ (value < 1 \/ value > Max(1, dbTotalPages)))
           => (dbCurrentPage' = dbCurrentPage /\ inflight' = inflight)]_vars

(* ---------------------------------------------------------------------- *)
(* Properties of error reporting                                           *)
(* ---------------------------------------------------------------------- *)
\* C11: a request of the view answered 401 adds no notification to the queue.
C11_NoNotificationOn401 ==
    tr.status = 401 => emitted = <<>>

\* the `method` option of the fetch() call of each transport function
HttpMethod(op) ==
    CASE op \in {"get", "downloadBlob", "downloadText"} -> "GET"
      [] op \in {"post", "upload"} -> "POST"
      [] op = "put" -> "PUT"
      [] op = "delete" -> "DELETE"

\* a response that is neither 2xx nor 401
IsErrorResponse == tr.op # "none" /\ tr.status \notin {0, 401} /\ ~IsOk(tr.status)

\* C14: a non-2xx, non-401 response whose body is not JSON makes the call
\* reject with the generic message built from status and status text.
C14_GenericOnUnparseableBody ==
    (IsErrorResponse /\ tr.body = "notjson")
      => (tr.outcome = "reject" /\ tr.msg.kind = "generic" /\ tr.msg.status = tr.status)

\* C15: for a non-2xx, non-401 response with a JSON body the error message is
\* the detail field when present, otherwise the generic message that starts
\* with the HTTP method of the request.
C15_DetailOrMethodMessage ==
    (IsErrorResponse /\ tr.body \in {"detail", "nodetail"})
      => (/\ tr.outcome = "reject"
          /\ IF tr.body = "detail"
             THEN tr.msg.kind = "detail"
             ELSE (/\ tr.msg.kind = "generic"
                   /\ tr.msg.method = HttpMethod(tr.op)
                   /\ tr.msg.status = tr.status))

\* C20: every notification an operation adds has kind success or error.
C20_KindsSuccessOrError ==
    \A i \in 1..Len(emitted) : emitted[i].type \in {"success", "error"}

(* ---------------------------------------------------------------------- *)
(* Error overlay: the transport functions and the global error handlers    *)
(* of hooks.client.ts                                                      *)
(* ---------------------------------------------------------------------- *)
\* a step of a global error handler that sets the overlay to `state`
OverlaySet(state) ==
    /\ errorOverlayState' = state
    /\ tr' = NoCall
    /\ emitted' = <<>>
    /\ UNCHANGED <<storeVars, pureVars, createVars, dbVars, itemType, mounted, queryVars, resultVars, flagVars,
                   deleteVars, showEditorSidebar, uploadVars, fileVars, netVars, serverCount>>

\* export const handleError: HandleClientError
handleError == OverlaySet(triggerUnknownError)

\* window.addEventListener('unhandledrejection', ...)
onUnhandledRejection == OverlaySet(triggerNetworkError)

\* window.addEventListener('error', ...)
onError == OverlaySet(triggerUnknownError)

InitOverlay == InitView("collection")

NextOverlay ==
    \/ NextTransport
    \/ handleError
    \/ onUnhandledRejection
    \/ onError

SpecOverlay == InitOverlay /\ [][NextOverlay]_vars

C13_StaysVisible ==
    [][errorOverlayState.visible => errorOverlayState'.visible]_vars

\* a call that succeeded while the overlay was visible
C13_Witness ==
    /\ errorOverlayState.visible
    /\ tr.op = "get" /\ tr.status = 200 /\ tr.outcome = "resolve"

\* C16: an unhandled promise rejection or a component error puts category
\* unknown in the overlay state.
C16_UnknownCategory ==
    [][(handleError \/ onUnhandledRejection \/ onError)
         => errorOverlayState'.errorType = "unknown"]_vars

(* ---------------------------------------------------------------------- *)
(* Notification queue (lib/stores/notifications) on its own: any caller    *)
(* adds notifications, the clock advances, the timers setTimeout scheduled *)
(* fire, the user clicks a notification that NotificationList renders.     *)
(* ---------------------------------------------------------------------- *)
\* the display window (5000 ms) in clock ticks, the last clock value and the
\* number of addNotification calls of a run
DisplayWindow == 2
MaxClock == 4
MaxAdds == 3

\* callers pass "success" and "error", and some pass "info"
NoteTypes == {"success", "error", "info"}
NoteMessages == {"saved"}

\* const typeToConfig: the types NotificationList renders
typeToConfig == {"success", "error"}

InQueue(queue, id) == \E i \in 1..Len(queue) : queue[i].id = id

\* currentNotifications.filter((n) => n.id !== id)
Removed(queue, id) == SelectSeq(queue, LAMBDA n : n.id # id)

\* removeNotification dropping the oldest entry when the id is not queued
removeNotification_DropsOldest(id) ==
    IF InQueue(notifications, id) \/ notifications = <<>>
    THEN Removed(notifications, id)
    ELSE Tail(notifications)

\* export function removeNotification(id: number)
removeNotification(id) == Removed(notifications, id)

storeRest ==
    <<pureVars, createVars, dbVars, itemType, mounted, queryVars, resultVars, flagVars, deleteVars,
      showEditorSidebar, uploadVars, fileVars, errorOverlayState, netVars, serverCount,
      tr, emitted>>

\* addNotification that schedules no removal
addNotification_NoTimer(message, type) ==
    /\ added < MaxAdds
    /\ clock + DisplayWindow <= MaxClock
    /\ LET id == clock IN
         /\ notifications' = Append(notifications, [id |-> id, message |-> message, type |-> type])
         /\ timers' = timers
         /\ storeOp' = [op |-> "add", id |-> id, before |-> notifications]
    /\ added' = added + 1
    /\ UNCHANGED <<clock, storeRest>>

\* export function addNotification(message, type): the id is Date.now(), the
\* entry goes to the end of the queue, and a timer is set to remove that id
\* after the display window
addNotification(message, type) ==
    /\ added < MaxAdds
    /\ clock + DisplayWindow <= MaxClock
    /\ LET id == clock IN
         /\ notifications' = Append(notifications, [id |-> id, message |-> message, type |-> type])
         /\ timers' = Append(timers, [id |-> id, due |-> clock + DisplayWindow])
         /\ storeOp' = [op |-> "add", id |-> id, before |-> notifications]
    /\ added' = added + 1
    /\ UNCHANGED <<clock, storeRest>>

\* Date.now() moves on; a timer that is due runs before the clock passes it
Tick ==
    /\ clock < MaxClock
    /\ \A i \in 1..Len(timers) : timers[i].due > clock
    /\ clock' = clock + 1
    /\ storeOp' = NoStoreOp
    /\ UNCHANGED <<notifications, timers, added, storeRest>>

\* setTimeout(() => { removeNotification(id); }, 5000): the oldest timer runs
\* once it is due
TimerFires ==
    /\ timers # <<>>
    /\ Head(timers).due <= clock
    /\ notifications' = removeNotification(Head(timers).id)
    /\ timers' = Tail(timers)
    /\ storeOp' = [op |-> "timer", id |-> Head(timers).id, before |-> notifications]
    /\ UNCHANGED <<clock, added, storeRest>>

\* on:click={() => removeNotification(notification.id)} on a rendered entry
Dismiss(i) ==
    /\ i \in 1..Len(notifications)
    /\ notifications[i].type \in typeToConfig
    /\ notifications' = removeNotification(notifications[i].id)
    /\ storeOp' = [op |-> "dismiss", id |-> notifications[i].id, before |-> notifications]
    /\ UNCHANGED <<clock, timers, added, storeRest>>

InitNotifications == InitView("collection")

NextNotifications ==
    \/ \E message \in NoteMessages, type \in NoteTypes : addNotification(message, type)
    \/ Tick
    \/ TimerFires
    \/ \E i \in 1..MaxAdds : Dismiss(i)

SpecNotifications == InitNotifications /\ [][NextNotifications]_vars

\* the event loop runs a timer that is due, and time passes
SpecNotificationsFair ==
    SpecNotifications /\ WF_vars(TimerFires) /\ WF_vars(Tick)

\* C17: the ids of the queued notifications are pairwise distinct, so that
\* each of n added notifications can be removed on its own, also when they
\* were added within the same clock tick.
C17_IdsDistinct ==
    \A i, j \in 1..Len(notifications) :
        i # j => notifications[i].id # notifications[j].id

\* C18: every notification is eventually removed, by dismissal or by its
\* timer (the timers being run fairly), and none is still queued once the
\* clock has passed the display window since it was added.
C18_EventuallyRemoved ==
    /\ [](\A i \in 1..Len(notifications) : clock <= notifications[i].id + DisplayWindow)
    /\ \A id \in 0..MaxClock : InQueue(notifications, id) ~> ~InQueue(notifications, id)

\* a timer has just removed the last queued notification
C18_Witness ==
    /\ storeOp.op = "timer"
    /\ InQueue(storeOp.before, storeOp.id)
    /\ notifications = <<>>
    /\ clock = storeOp.id + DisplayWindow

\* C19: removeNotification(id) is idempotent, and removing an id that is not
\* queued leaves the queue unchanged.
C19_RemoveIdempotent ==
    [][storeOp'.op \in {"timer", "dismiss"} =>
         /\ removeNotification(storeOp.id)' = notifications'
         /\ ~InQueue(storeOp'.before, storeOp'.id) => notifications' = storeOp'.before]_vars

\* the timer of a notification that was dismissed before runs while another
\* notification is queued
C19_Witness ==
    /\ storeOp.op = "timer"
    /\ ~InQueue(storeOp.before, storeOp.id)
    /\ storeOp.before # <<>>
    /\ notifications = storeOp.before

(* ---------------------------------------------------------------------- *)
(* Properties of the mutations of the document list view                   *)
(* ---------------------------------------------------------------------- *)
\* number of pending calls of one kind
CountKind(q, kind) == Cardinality({i \in 1..Len(q) : q[i].kind = kind})

\* the step sent a delete request
DeleteIssued == CountKind(inflight', "delete") > CountKind(inflight, "delete")

\* C21: a delete call for an item is issued only by confirming the
\* confirmation that was opened for that item; cancelling the confirmation
\* issues no transport call and leaves the result set, the page index, the
\* filter and the sort unchanged.
C21_DeleteNeedsConfirmation ==
    [][/\ DeleteIssued =>
            /\ confirmDelete
            /\ showDeleteModal
            /\ docToDelete # None
            /\ inflight' = Append(inflight, inflight'[Len(inflight')])
            /\ inflight'[Len(inflight')].target = docToDelete
       /\ (docToDelete' # docToDelete /\ docToDelete' # None) => handleDeleteClick(docToDelete')
       /\ cancelDelete =>
            /\ inflight' = inflight
            /\ UNCHANGED <<documentsResponse, shown, currentPage, queryTerm, sortField, sortOrder>>]_vars

\* the confirmation opened for d2 was confirmed: its delete is pending
C21_Witness ==
    /\ showDeleteModal /\ deleteModalLoading /\ docToDelete = "d2"
    /\ \E i \in 1..Len(inflight) : inflight[i].kind = "delete" /\ inflight[i].target = "d2"

\* the notifications of kind success among `notes`
SuccessNotes(notes) == SelectSeq(notes, LAMBDA n : n.type = "success")

\* a listing request was appended to the pending calls `base`
ListingIssuedAfter(base) ==
    /\ Len(inflight') = Len(base) + 1
    /\ SubSeq(inflight', 1, Len(base)) = base
    /\ inflight'[Len(inflight')].kind \in FetchKinds

\* C22: when a confirmed delete call succeeds, exactly one success
\* notification naming the deleted identifier is added and then a listing
\* fetch is issued; when it fails, no success notification is added and no
\* listing fetch is issued.
C22_DeleteSuccessNotifiesAndRefetches ==
    [][tr'.op = "delete" =>
         \E i \in 1..Len(inflight) :
            /\ inflight[i].kind = "delete"
            /\ IF tr'.outcome = "resolve"
               THEN /\ SuccessNotes(emitted') =
                         <<Note(<<"deleted successfully", inflight[i].target>>, "success")>>
                    /\ emitted'[1].type = "success"
                    /\ ListingIssuedAfter(RemoveAt(inflight, i))
               ELSE /\ SuccessNotes(emitted') = <<>>
                    /\ inflight' = RemoveAt(inflight, i)]_vars

\* C23: a delete the server answers non-2xx (the identifier was removed
\* before) surfaces an error: the call rejects with a server / generic
\* error, an error notification is added and no success notification.
C23_DeleteOfRemovedSurfacesError ==
    (tr.op = "delete" /\ tr.status \notin {0, 401} /\ ~IsOk(tr.status))
      => /\ tr.outcome = "reject"
         /\ tr.msg.kind \in {"detail", "generic"}
         /\ Len(emitted) = 1
         /\ emitted[1].type = "error"
         /\ SuccessNotes(emitted) = <<>>

\* the success notification of a create or an update
SavedNote(kind) ==
    Note(<<IF kind = "create" THEN "New document created successfully."
           ELSE "Document updated successfully.">>, "success")

fetchDocumentsPage(isInitialLoad, outer, pre, base) ==
    LET withSort == sortField' # None /\ sortOrder' # 0
        c == Call("query", outer, currentPage', FilterOf(queryTerm'),
                  IF withSort THEN sortField' ELSE None,
                  IF withSort THEN sortOrder' ELSE 0, None)
    IN /\ UNCHANGED <<error, mutations>>
       /\ calls' = IF outer = "none" THEN calls + 1 ELSE calls
       /\ IF FetchIssued
          THEN /\ loading' = IF isInitialLoad THEN TRUE ELSE loading
               /\ isTableLoading' = IF isInitialLoad THEN isTableLoading ELSE TRUE
               /\ inflight' = Append(base, c)
               /\ lastFetch' = FetchTag(c)
               /\ emitted' = pre
          ELSE /\ loading' = FALSE
               /\ isTableLoading' = FALSE
               /\ inflight' = base
               /\ UNCHANGED lastFetch
               /\ emitted' = Append(pre, Note(<<"Invalid JSON query.">>, "error"))

\* onMount(() => { fetchDocuments(true); })
MountPage ==
    /\ ~mounted
    /\ mounted' = TRUE
    /\ UNCHANGED <<storeVars, pureVars, createVars, dbVars, itemType, queryVars, resultVars, deleteVars,
                   showEditorSidebar, uploadVars, fileVars>>
    /\ fetchDocumentsPage(TRUE, "none", <<>>, inflight)
    /\ NoTransport

\* handleSearch()
handleSearch ==
    /\ mounted
    /\ CanIssue
    /\ currentPage' = 1
    /\ UNCHANGED <<queryTerm, sortField, sortOrder>>
    /\ UNCHANGED <<storeVars, pureVars, createVars, dbVars, itemType, mounted, resultVars, deleteVars,
                   showEditorSidebar, uploadVars, fileVars>>
    /\ fetchDocumentsPage(FALSE, "none", <<>>, inflight)
    /\ NoTransport

\* handleRowClick(doc) and handleNewDocumentClick()
openEditorPage ==
    /\ mounted
    /\ ~showEditorSidebar
    /\ showEditorSidebar' = TRUE
    /\ emitted' = <<>>
    /\ UNCHANGED <<storeVars, pureVars, createVars, dbVars, itemType, mounted, queryVars, resultVars, flagVars,
                   deleteVars, uploadVars, fileVars, netVars>>
    /\ NoTransport

\* handleSave(event) up to the awaited apiPost / apiPut
handleSavePage(hasId) ==
    /\ showEditorSidebar
    /\ CanMutate
    /\ inflight' = Append(inflight,
         Call(IF hasId THEN "update" ELSE "create", "none", 0, "{}", None, 0,
              IF hasId THEN "d1" ELSE None))
    /\ mutations' = mutations + 1
    /\ calls' = calls + 1
    /\ UNCHANGED lastFetch
    /\ emitted' = <<>>
    /\ UNCHANGED <<storeVars, pureVars, createVars, dbVars, itemType, mounted, queryVars, resultVars, flagVars,
                   deleteVars, showEditorSidebar, uploadVars, fileVars>>
    /\ NoTransport

\* fetchDocuments after the await, its catch and its finally
DeliverFetchPage(i, reply) ==
    /\ i \in 1..Len(inflight) /\ inflight[i].kind = "query"
    /\ LET c == inflight[i]
           r == Transport(c.kind, reply)
       IN /\ Settle(c, reply, r)
          /\ documentsResponse' = ResponseAfter(c, reply, r)
          /\ shown' = FetchTag(c)
          /\ emitted' = IF r.outcome = "reject"
                        THEN <<Note(<<"Failed to fetch documents.">>, "error")>>
                        ELSE IF reply.body # "data"
                        THEN <<Note(<<"Invalid API response received.">>, "error")>>
                        ELSE <<>>
    /\ loading' = FALSE
    /\ isTableLoading' = FALSE
    /\ inflight' = RemoveAt(inflight, i)
    /\ UNCHANGED <<storeVars, pureVars, createVars, dbVars, itemType, mounted, queryVars, error, deleteVars,
                   showEditorSidebar, uploadVars, fileVars, mutations, calls, lastFetch>>

\* handleSave after await api.apiPost / api.apiPut
DeliverSavePage(i, reply) ==
    /\ i \in 1..Len(inflight) /\ inflight[i].kind \in {"create", "update"}
    /\ UNCHANGED <<storeVars, pureVars, createVars, dbVars, itemType, mounted, queryVars, resultVars, deleteVars,
                   uploadVars, fileVars>>
    /\ LET c == inflight[i]
           r == Transport(c.kind, reply)
       IN /\ Settle(c, reply, r)
          /\ IF r.outcome = "resolve"
             THEN /\ showEditorSidebar' = FALSE
                  /\ fetchDocumentsPage(FALSE, "handleSave",
                       <<Note(<<IF c.kind = "create"
                                THEN "New document created successfully."
                                ELSE "Document updated successfully.">>, "success")>>,
                       RemoveAt(inflight, i))
             ELSE /\ emitted' =
                       <<Note(<<"Failed to save document. Please check the data format.">>,
                              "error")>>
                  /\ inflight' = RemoveAt(inflight, i)
                  /\ UNCHANGED <<showEditorSidebar, flagVars, mutations, calls, lastFetch>>

InitPage == InitView("collection")

NextPage ==
    \/ MountPage
    \/ \E t \in QueryTerms : TypeQuery(t)
    \/ handleSearch
    \/ openEditorPage
    \/ \E hasId \in BOOLEAN : handleSavePage(hasId)
    \/ closeEditor
    \/ \E i \in 1..MaxInflight, reply \in Replies : DeliverFetchPage(i, reply)
    \/ \E i \in 1..MaxInflight, reply \in Replies : DeliverSavePage(i, reply)

SpecPage == InitPage /\ [][NextPage]_vars

\* the step settled the create, update or upload call `i` with a rejection
MutationFailed(i) ==
    /\ i \in 1..Len(inflight)
    /\ inflight[i].kind \in {"create", "update", "upload"}
    /\ inflight' = RemoveAt(inflight, i)
    /\ tr'.op = OpOf(inflight[i].kind)
    /\ tr'.outcome = "reject"

\* C25: when a create, update or upload call fails, one error notification
\* carrying the error message of the transport is added, the editing surface
\* (editor sidebar, upload dialog) stays as it was, and the visible result
\* set, the page index, the filter and the sort are unchanged.
C25_FailedMutationKeepsSurface ==
    [][\A i \in 1..MaxInflight :
         MutationFailed(i)
           => /\ emitted' = <<ErrorNote(tr)>>'
              /\ UNCHANGED <<showEditorSidebar, showUploadModal>>
              /\ UNCHANGED <<documentsResponse, shown, currentPage, queryTerm,
                             sortField, sortOrder>>]_vars

\* C26: when an upload to a bucket succeeds, a notification of kind success
\* is added and the listing fetch of the bucket's files is issued afterwards.
C26_UploadSuccessNotifiesAndRefetches ==
    [][(tr'.op = "upload" /\ tr'.outcome = "resolve") =>
         \E i \in 1..Len(inflight) :
            /\ inflight[i].kind = "upload"
            /\ Len(emitted') > 0
            /\ emitted'[1] = Note(<<"File uploaded successfully">>, "success")
            /\ ListingIssuedAfter(RemoveAt(inflight, i))
            /\ inflight'[Len(inflight')].kind = "files"]_vars

(* ---------------------------------------------------------------------- *)
(* The query box, the sort and the pagination of the document view with    *)
(* every kind of text JSON.parse can be given, and every shape of reply.   *)
(* ---------------------------------------------------------------------- *)
\* texts typed into the query box: empty, an object, an array, a number, a
\* string, a boolean, null, not JSON
FilterTexts ==
    {"", "{\"status\":\"active\"}", "[1]", "5", "\"abc\"", "true", "null", "oops"}

\* document counts the server may hold
QueryCounts == {0, 8, 13}

\* replies to a query: also a 200 whose body is {documents: [...], count: n}
QueryReplies == Replies \cup {[status |-> 200, body |-> "documents"]}

InitQuery ==
    /\ Constructed
    /\ itemType = "collection"
    /\ carouselIndex = 0
    /\ serverCount \in QueryCounts

NextQuery ==
    \/ Mount
    \/ \E t \in FilterTexts : TypeQuery(t)
    \/ handleQuerySubmit
    \/ \E key \in Keys : handleHeaderSort(key)
    \/ \E value \in 0..MaxPageInput : handlePageInput(value)
    \/ handleNextPage
    \/ handlePrevPage
    \/ handleFirstPage
    \/ handleLastPage
    \/ \E i \in 1..MaxInflight, reply \in QueryReplies : DeliverFetch(i, reply)

SpecQuery == InitQuery /\ [][NextQuery]_vars

\* the step sent a document query
QueryIssued == CountKind(inflight', "query") > CountKind(inflight, "query")

\* C27: every document query that is sent carries a filter that is a mapping
\* (a JSON object), whatever the text of the query box parses to, and the
\* empty mapping when the text is empty.
C27_FilterIsMapping ==
    \A i \in 1..Len(inflight) :
        inflight[i].kind = "query" => JsonKind(inflight[i].filter) = "object"

\* C28: submitting a query text that is not valid JSON sends no request: the
\* error notification "Invalid JSON query." is added and the visible result
\* set stays as it was.
C28_InvalidQueryNotSent ==
    [][(handleQuerySubmit /\ queryTerm # "" /\ JsonKind(queryTerm) = "invalid")
         => /\ inflight' = inflight
            /\ emitted' = <<Note(<<"Invalid JSON query.">>, "error")>>
            /\ emitted'[1].type \in typeToConfig
            /\ UNCHANGED <<documentsResponse, shown>>]_vars

\* a listing of 8 documents is visible and the submission of the text "oops"
\* was refused
C28_Witness ==
    /\ queryTerm = "oops"
    /\ emitted = <<Note(<<"Invalid JSON query.">>, "error")>>
    /\ inflight = <<>>
    /\ tr = NoCall
    /\ documentsResponse = [docs |-> 8, total |-> 8, page |-> 1]
    /\ ~isTableLoading

\* C29: the response {documents: [8 items], count: 8} to the query for page
\* 1 gives a visible result set of these 8 items with total 8, which is one
\* page.
C29_DocumentsCountResponse ==
    (tr.op = "post" /\ tr.outcome = "resolve" /\ tr.body = "documents"
       /\ serverCount = 8 /\ shown.page = 1)
      => (documentsResponse = [docs |-> 8, total |-> 8, page |-> 1] /\ totalPages = 1)

\* C30: every document listing request carries the page index (and the page
\* size); it carries sort_field and sort_order exactly when a sort is active,
\* with sort_order 1 or -1, and the sort is active only after a click on a
\* column header.
C30_ListingParameters ==
    [][/\ (sortField' # sortField \/ sortOrder' # sortOrder)
            => \E key \in Keys : handleHeaderSort(key)
       /\ (sortField = None) <=> (sortOrder = 0)
       /\ QueryIssued =>
            LET c == inflight'[Len(inflight')]
            IN /\ c.kind = "query"
               /\ c.page = currentPage'
               /\ IF sortField' # None
                  THEN c.sf = sortField' /\ c.so = sortOrder' /\ c.so \in {1, -1}
                  ELSE c.sf = None /\ c.so = 0]_vars

\* requests of a view whose header "age" was clicked twice: none, then
\* ascending, then descending
C30_Witness ==
    /\ sortField = "age" /\ sortOrder = -1
    /\ Len(inflight) = 2
    /\ inflight[1].sf = "age" /\ inflight[1].so = 1
    /\ inflight[2].sf = "age" /\ inflight[2].so = -1
    /\ shown.sf = None /\ shown.so = 0 /\ shown.page = 1

(* ---------------------------------------------------------------------- *)
(* Properties of the requests of the editor and of the upload dialog       *)
(* ---------------------------------------------------------------------- *)
\* the editor of the document view: the listing, the query box, the editor
\* and its save
InitEditor == InitView("collection")

NextEditor ==
    \/ Mount
    \/ \E t \in QueryTerms : TypeQuery(t)
    \/ handleQuerySubmit
    \/ handleRowClick
    \/ handleNewDocumentClick
    \/ \E id \in EditorIds : handleSave(id)
    \/ closeEditor
    \/ \E i \in 1..MaxInflight, reply \in Replies : DeliverFetch(i, reply)
    \/ \E i \in 1..MaxInflight, reply \in Replies : DeliverSave(i, reply)

SpecEditor == InitEditor /\ [][NextEditor]_vars

\* C31: every create request for a document saved from the editor carries a
\* document without an identifier field.
C31_CreateWithoutId ==
    \A i \in 1..Len(inflight) : inflight[i].kind = "create" => inflight[i].target = None

\* a create is pending while the editor is still open
C31_Witness ==
    /\ showEditorSidebar
    /\ \E i \in 1..Len(inflight) : inflight[i].kind = "create" /\ inflight[i].outer = "none"


(* ---------------------------------------------------------------------- *)
(* Create dialog of the database-level view: the Modal component rendered  *)
(* by CollectionsView ({#if showCreateModal}) or by GridFSView ({#if        *)
(* showCreateBucketModal}).  A pending creation request is `attached` while *)
(* the Modal instance whose handleConfirm awaits it is still mounted.       *)
(* ---------------------------------------------------------------------- *)
MaxCreates == 2
CreateNames == {"", "c1"}
CreateHandlers == {"handleCreateCollection", "handleCreateBucket"}

\* $: createCollectionValid / $: createBucketValid
createCollectionValid == Trim(newCollectionName) # ""
createBucketValid == Trim(newCollectionName) # "" /\ bucketFile
\* confirmDisabled={!createCollectionValid} / confirmDisabled={!createBucketValid}
confirmDisabled ==
    IF carouselIndex = 0 THEN ~createCollectionValid ELSE ~createBucketValid

IsCreateCall(c) == c.outer \in CreateHandlers /\ c.kind \in {"create", "upload"}

\* the {#if} block removes the Modal instance: nothing awaits its calls
Detached(q) ==
    [i \in 1..Len(q) |-> IF IsCreateCall(q[i]) THEN [q[i] EXCEPT !.attached = FALSE] ELSE q[i]]

createRest == <<carouselIndex, dbCurrentPage, dbSearchTerm, viewPage, viewLoading, viewError,
                listResponse, mounted, docViewVars, storeVars, pureVars, shown>>

\* handleCreate of the parent: showCreateCollectionModal() / openCreateBucketModal()
handleCreate ==
    /\ mounted
    /\ ~showCreateModal
    /\ showCreateModal' = TRUE
    /\ isLoading' = FALSE
    /\ emitted' = <<>>
    /\ UNCHANGED <<newCollectionName, bucketFile, bucketMetadataString, netVars, createRest>>
    /\ NoTransport

\* bind:value={newCollectionName} / bind:value={newBucketName}
TypeName(name) ==
    /\ showCreateModal
    /\ name # newCollectionName
    /\ newCollectionName' = name
    /\ emitted' = <<>>
    /\ UNCHANGED <<showCreateModal, bucketFile, bucketMetadataString, isLoading, netVars,
                   createRest>>
    /\ NoTransport

\* GridFSView.handleFileSelect with a file chosen
handleFileSelectBucket ==
    /\ showCreateModal
    /\ carouselIndex = 1
    /\ ~bucketFile
    /\ bucketFile' = TRUE
    /\ emitted' = <<>>
    /\ UNCHANGED <<showCreateModal, newCollectionName, bucketMetadataString, isLoading,
                   netVars, createRest>>
    /\ NoTransport

\* bind:value={bucketMetadataString}
TypeBucketMetadata(text) ==
    /\ showCreateModal
    /\ carouselIndex = 1
    /\ text # bucketMetadataString
    /\ bucketMetadataString' = text
    /\ emitted' = <<>>
    /\ UNCHANGED <<showCreateModal, newCollectionName, bucketFile, isLoading, netVars,
                   createRest>>
    /\ NoTransport

\* onCancel of the create dialog (the close button and the backdrop are
\* never disabled)
cancelCreate ==
    /\ showCreateModal
    /\ showCreateModal' = FALSE
    /\ newCollectionName' = ""
    /\ bucketFile' = IF carouselIndex = 1 THEN FALSE ELSE bucketFile
    /\ isLoading' = FALSE
    /\ inflight' = Detached(inflight)
    /\ emitted' = <<>>
    /\ UNCHANGED <<bucketMetadataString, mutations, calls, lastFetch, createRest>>
    /\ NoTransport

\* the request of handleCreateCollection: apiPost(`/db/${db}/col/${name}`, {})
CreateCollectionCall ==
    Call("create", "handleCreateCollection", 0, None, None, 0, newCollectionName)
      @@ [attached |-> TRUE]

\* the request of handleCreateBucket: the form has the field `file`, and the
\* field `metadata` (filter) only when bucketMetadataString.trim() is not empty
CreateBucketCall ==
    Call("upload", "handleCreateBucket", 0,
         IF Trim(bucketMetadataString) # "" THEN bucketMetadataString ELSE None,
         None, 0, newCollectionName)
      @@ [attached |-> TRUE]

\* the body of Modal.handleConfirm with onConfirm = handleCreateCollection or
\* handleCreateBucket, up to the awaited request
Confirm ==
    /\ showCreateModal
    /\ UNCHANGED <<showCreateModal, newCollectionName, bucketFile, bucketMetadataString,
                   lastFetch, createRest>>
    /\ NoTransport
    /\ IF confirmDisabled
       THEN /\ emitted' = <<>>
            /\ UNCHANGED <<isLoading, inflight, mutations, calls>>
       ELSE IF carouselIndex = 1 /\ Trim(bucketMetadataString) # ""
               /\ ~ParsesAsJson(bucketMetadataString)
       THEN /\ emitted' = <<Note(<<"Invalid JSON in metadata field.">>, "error")>>
            /\ UNCHANGED <<isLoading, inflight, mutations, calls>>
       ELSE /\ CanIssue /\ mutations < MaxCreates
            /\ isLoading' = TRUE
            /\ inflight' = Append(inflight, IF carouselIndex = 0 THEN CreateCollectionCall
                                            ELSE CreateBucketCall)
            /\ mutations' = mutations + 1
            /\ calls' = calls + 1
            /\ emitted' = <<>>

\* a confirm button that is enabled while isLoading
handleConfirm_NoLoadingGuard == Confirm

\* Modal.handleConfirm, called by the confirm button, which has
\* disabled={isLoading}
handleConfirm ==
    /\ ~isLoading
    /\ Confirm

\* handleCreateCollection / handleCreateBucket after the await: on success
\* the dialog is closed, the child's own currentPage becomes 1 and the child
\* fetches; selectedFile!.name throws when the file was cleared meanwhile
DeliverCreate(i, reply) ==
    /\ i \in 1..Len(inflight) /\ IsCreateCall(inflight[i])
    /\ LET c == inflight[i]
           r == Transport(c.kind, reply)
           ok == r.outcome = "resolve" /\ (c.kind = "upload" => bucketFile)
           list == Call(IF c.kind = "create" THEN "collections" ELSE "buckets", c.outer, 1,
                        IF Trim(dbSearchTerm) # "" THEN dbSearchTerm ELSE None, None, 0, None)
       IN /\ Settle(c, reply, r)
          /\ IF ok
             THEN /\ emitted' = <<Note(<<"created", newCollectionName>>, "success")>>
                  /\ showCreateModal' = FALSE
                  /\ newCollectionName' = ""
                  /\ bucketFile' = FALSE
                  /\ bucketMetadataString' = ""
                  /\ isLoading' = FALSE
                  /\ viewPage' = 1
                  /\ viewLoading' = TRUE
                  /\ viewError' = FALSE
                  /\ inflight' = Append(Detached(RemoveAt(inflight, i)), list)
                  /\ lastFetch' = FetchTag(list)
             ELSE /\ emitted' = IF r.outcome = "reject" THEN <<ErrorNote(r)>>
                                ELSE <<Note(<<"error", "TypeError">>, "error")>>
                  /\ isLoading' = IF c.attached THEN FALSE ELSE isLoading
                  /\ inflight' = RemoveAt(inflight, i)
                  /\ UNCHANGED <<showCreateModal, newCollectionName, bucketFile,
                                 bucketMetadataString, viewPage, viewLoading, viewError,
                                 lastFetch>>
    /\ UNCHANGED <<carouselIndex, dbCurrentPage, dbSearchTerm, listResponse, mounted,
                   docViewVars, storeVars, pureVars, shown, mutations, calls>>

NextCreate ==
    \/ DbMount
    \/ \E page \in 0..(MaxPageInput + 1) : changePage(page)
    \/ handleCreate
    \/ \E name \in CreateNames : TypeName(name)
    \/ handleFileSelectBucket
    \/ \E text \in MetaTexts : TypeBucketMetadata(text)
    \/ cancelCreate
    \/ handleConfirm
    \/ \E i \in 1..MaxInflight, reply \in Replies : DeliverCreate(i, reply)
    \/ \E i \in 1..MaxInflight, reply \in Replies : DeliverList(i, reply)

SpecCreate == InitDb /\ [][NextCreate]_vars



\* C32: every file upload request carries the multipart field metadata, as
\* JSON text that is {} when the operator entered none, both for an upload
\* into an existing bucket and for the upload that creates a bucket.
C32_UploadCarriesMetadata ==
    \A i \in 1..Len(inflight) :
        inflight[i].kind = "upload"
          => /\ inflight[i].filter # None
             /\ ParsesAsJson(inflight[i].filter)
             /\ (Trim(bucketMetadataString) = "" /\ inflight[i].outer = "handleCreateBucket"
                   => inflight[i].filter = "{}")

\* C40: when the refetch issued by a successful creation has written the
\* visible result set and no later fetch was issued, the parent's page index
\* is the page of that request.
C40_ParentPageIsShownPage ==
    (/\ tr.op = "get" /\ tr.outcome = "resolve"
     /\ shown.outer \in CreateHandlers
     /\ lastFetch = shown)
      => dbCurrentPage = shown.page


\* the pending creation requests that the mounted Modal instance awaits
AwaitedByDialog == {i \in 1..Len(inflight) : IsCreateCall(inflight[i]) /\ inflight[i].attached}

\* C38: a dialog awaits at most one confirm action at a time, its isLoading
\* flag is set exactly while it awaits one (it is cleared when the action
\* settles, whatever the outcome), and a confirm while confirmDisabled is set
\* issues no request and leaves the flag alone.
C38_OneConfirmInFlight ==
    /\ [](Cardinality(AwaitedByDialog) <= 1 /\ (isLoading <=> AwaitedByDialog # {}))
    /\ [][(confirmDisabled /\ handleConfirm)
            => (inflight' = inflight /\ isLoading' = isLoading /\ emitted' = <<>>)]_vars

\* the dialog awaits a creation request while an earlier request, issued by
\* a dialog that was closed since, is still pending
C38_Witness ==
    /\ showCreateModal /\ isLoading
    /\ AwaitedByDialog # {}
    /\ \E i \in 1..Len(inflight) : IsCreateCall(inflight[i]) /\ ~inflight[i].attached


(* ---------------------------------------------------------------------- *)
(* Delete confirmation of a list view (documents or files)                 *)
(* ---------------------------------------------------------------------- *)
InitDelete ==
    /\ Constructed
    /\ itemType \in ItemTypes
    /\ carouselIndex = 0
    /\ serverCount \in InitCounts

NextDelete ==
    \/ Mount
    \/ \E t \in QueryTerms : TypeQuery(t)
    \/ \E doc \in DocIds : handleDeleteClick(doc)
    \/ confirmDelete
    \/ cancelDelete
    \/ \E i \in 1..MaxInflight, reply \in Replies : DeliverFetch(i, reply)
    \/ \E i \in 1..MaxInflight, reply \in Replies : DeliverDelete(i, reply)

SpecDelete == InitDelete /\ [][NextDelete]_vars

\* confirmDelete has run to its end: the delete failed, or the listing fetch
\* it awaited has settled, or no listing fetch was issued
ConfirmDeleteEnded ==
    \/ tr'.op = "delete" /\ Len(inflight') < Len(inflight)
    \/ \E i \in 1..Len(inflight), reply \in Replies :
          DeliverFetch(i, reply) /\ inflight[i].outer = "confirmDelete"

\* C37: the delete confirmation is shown exactly when a delete target is
\* set; when confirmDelete has ended (success or failure) and after
\* cancelDelete the confirmation is closed and the target cleared, and a
\* confirm with the confirmation closed issues no delete.
C37_ConfirmationIffTarget ==
    /\ [](showDeleteModal <=> docToDelete # None)
    /\ [][(ConfirmDeleteEnded \/ cancelDelete)
            => (~showDeleteModal' /\ docToDelete' = None)]_vars
    /\ [][DeleteIssued => (showDeleteModal /\ inflight'[Len(inflight')].target = docToDelete)]_vars

\* a confirmed delete has ended and left the confirmation closed, after an
\* item had been selected
C37_Witness ==
    /\ tr.op = "delete" /\ tr.outcome = "reject"
    /\ ~showDeleteModal /\ docToDelete = None
    /\ mutations > 0


\* C36: a listing fetch that fails adds exactly one notification, of type
\* error, and its continuation issues no transport request: the pending
\* calls are the earlier ones without the failed one.
C36_FailedFetchReportedOnce ==
    [][\A i \in 1..Len(inflight), reply \in Replies :
         (DeliverFetch(i, reply) /\ tr'.outcome = "reject")
           => /\ Len(emitted') = 1
              /\ emitted'[1].type = "error"
              /\ inflight' = RemoveAt(inflight, i)
              /\ error']_vars

\* the listing fetch awaited by confirmDelete was answered 500
C36_Witness ==
    /\ tr.op \in {"post", "get"} /\ tr.status = 500 /\ tr.outcome = "reject"
    /\ shown.outer = "confirmDelete"
    /\ Len(emitted) = 1 /\ error


\* C39: every pageChange event the pagination component dispatches (first,
\* previous, next, last, page input) carries a page with
\* 1 <= page <= totalPages, totalPages being the prop at the time of the event.
C39_PageChangeInRange ==
    [][(\/ handleFirstPage \/ handlePrevPage \/ handleNextPage \/ handleLastPage
        \/ \E value \in 0..MaxPageInput : handlePageInput(value))
         => (1 <= currentPage' /\ currentPage' <= totalPages)]_vars


(* ---------------------------------------------------------------------- *)
(* Functions applied on their own.  A string is the sequence of its UTF-16 *)
(* code units; `input` is the argument, `output` the result once the       *)
(* function has been applied.                                              *)
(* ---------------------------------------------------------------------- *)
NotApplied == [done |-> FALSE]
Applied(value) == [done |-> TRUE, value |-> value]

pureRest == <<storeVars, createVars, dbVars, itemType, mounted, queryVars, resultVars, flagVars,
              deleteVars, showEditorSidebar, uploadVars, fileVars, errorOverlayState, netVars,
              serverCount, tr, emitted>>

\* the state around a function that is applied on its own
InitPure(type) ==
    /\ ConstructedState
    /\ itemType = type
    /\ carouselIndex = 0
    /\ serverCount = 0
    /\ output = NotApplied

\* String.prototype.toLowerCase (letters A-Z)
toLowerCase(s) == [i \in 1..Len(s) |-> IF s[i] >= 65 /\ s[i] <= 90 THEN s[i] + 32 ELSE s[i]]

\* String.prototype.includes
includes(s, sub) == \E k \in 0..(Len(s) - Len(sub)) : SubSeq(s, k + 1, k + Len(sub)) = sub

\* String.prototype.endsWith
endsWith(s, suffix) ==
    Len(s) >= Len(suffix) /\ SubSeq(s, Len(s) - Len(suffix) + 1, Len(s)) = suffix

\* a sorts before b in Array.prototype.sort(): by code units
RECURSIVE CodeUnitLess(_, _)
CodeUnitLess(a, b) ==
    IF a = <<>> THEN b # <<>>
    ELSE IF b = <<>> THEN FALSE
    ELSE IF a[1] # b[1] THEN a[1] < b[1]
    ELSE CodeUnitLess(Tail(a), Tail(b))

\* [...keys].sort()
RECURSIVE SortedKeys(_)
SortedKeys(keys) ==
    IF keys = {} THEN <<>>
    ELSE LET first == CHOOSE k \in keys : \A other \in keys \ {k} : CodeUnitLess(k, other)
         IN <<first>> \o SortedKeys(keys \ {first})

\* "_id", "id", "name" and the field names of the documents
Str_id == <<95, 105, 100>>
StrId == <<105, 100>>
StrName == <<110, 97, 109, 101>>
\* "userId", "ID", "Name", "age", "Zip"
FieldNames ==
    {<<117, 115, 101, 114, 73, 100>>, <<73, 68>>, <<78, 97, 109, 101>>, <<97, 103, 101>>,
     <<90, 105, 112>>}

\* the documents of a page: each has _id and some of the other fields
MaxDocs == 2
PageDocs == {{Str_id} \cup fields : fields \in SUBSET FieldNames}
Pages == UNION {[1..n -> PageDocs] : n \in 0..MaxDocs}

\* allUniqueKeys of extractAllKeys
allUniqueKeys(docs) == UNION {docs[i] : i \in 1..Len(docs)}

\* extractAllKeys with the name group before the id group
extractAllKeys_NameFirst(docs) ==
    LET keys == allUniqueKeys(docs) \ {Str_id}
        idKeys == {k \in keys : includes(toLowerCase(k), StrId)}
        nameKeys == {k \in keys \ idKeys : includes(toLowerCase(k), StrName)}
        otherKeys == (keys \ idKeys) \ nameKeys
    IN <<Str_id>> \o SortedKeys(nameKeys) \o SortedKeys(idKeys) \o SortedKeys(otherKeys)

\* extractAllKeys(docs)
extractAllKeys(docs) ==
    LET keys == allUniqueKeys(docs) \ {Str_id}
        idKeys == {k \in keys : includes(toLowerCase(k), StrId)}
        nameKeys == {k \in keys \ idKeys : includes(toLowerCase(k), StrName)}
        otherKeys == (keys \ idKeys) \ nameKeys
    IN <<Str_id>> \o SortedKeys(idKeys) \o SortedKeys(nameKeys) \o SortedKeys(otherKeys)

InitKeys == InitPure("collection") /\ input \in Pages

\* allKeys = extractAllKeys(documentsResponse.docs)
ApplyExtractAllKeys ==
    /\ ~output.done
    /\ output' = Applied(extractAllKeys(input))
    /\ UNCHANGED <<input, pureRest>>

NextKeys == ApplyExtractAllKeys

SpecKeys == InitKeys /\ [][NextKeys]_vars

\* the group of a key in the column order
KeyRank(k) ==
    IF k = Str_id THEN 0
    ELSE IF includes(toLowerCase(k), StrId) THEN 1
    ELSE IF includes(toLowerCase(k), StrName) THEN 2
    ELSE 3

\* the list holds exactly the keys of the items, each once, the identifier
\* field first, then the keys containing "id", then those containing "name",
\* then the rest, each group in sort order
ColumnsOf(docs, list) ==
    /\ {list[i] : i \in 1..Len(list)} = allUniqueKeys(docs)
    /\ \A i, j \in 1..Len(list) :
          i < j => \/ KeyRank(list[i]) < KeyRank(list[j])
                   \/ KeyRank(list[i]) = KeyRank(list[j]) /\ CodeUnitLess(list[i], list[j])

maxSizeBytes == 30 * 1024 * 1024

\* ".json", ".txt", ".md", ".yml", ".yaml", ".csv", ".xml", ".log", ".conf",
\* ".config", ".ini", ".properties"
viewableExtensions ==
    {<<46, 106, 115, 111, 110>>,
     <<46, 116, 120, 116>>,
     <<46, 109, 100>>,
     <<46, 121, 109, 108>>,
     <<46, 121, 97, 109, 108>>,
     <<46, 99, 115, 118>>,
     <<46, 120, 109, 108>>,
     <<46, 108, 111, 103>>,
     <<46, 99, 111, 110, 102>>,
     <<46, 99, 111, 110, 102, 105, 103>>,
     <<46, 105, 110, 105>>,
     <<46, 112, 114, 111, 112, 101, 114, 116, 105, 101, 115>>}

\* doc.filename: "a.json", "A.JSON", "a.txt", "a.md", "a.bin", "json",
\* "a.json.gz", "x.config", "a.jsonl", and no filename
FileNames ==
    {<<97, 46, 106, 115, 111, 110>>,
     <<65, 46, 74, 83, 79, 78>>,
     <<97, 46, 116, 120, 116>>,
     <<97, 46, 109, 100>>,
     <<97, 46, 98, 105, 110>>,
     <<106, 115, 111, 110>>,
     <<97, 46, 106, 115, 111, 110, 46, 103, 122>>,
     <<120, 46, 99, 111, 110, 102, 105, 103>>,
     <<97, 46, 106, 115, 111, 110, 108>>,
     <<>>}

\* doc.length: not reported, or a number of bytes
FileLengths ==
    {[known |-> FALSE, bytes |-> 0]} \cup
    {[known |-> TRUE, bytes |-> b] :
        b \in {0, 1, maxSizeBytes - 1, maxSizeBytes, maxSizeBytes + 1}}

FileDocs == [filename : FileNames, length : FileLengths]

\* isFileViewable(doc)
isFileViewable(doc) ==
    IF itemType # "gridfs" \/ doc.filename = <<>> THEN FALSE
    ELSE IF doc.length.known /\ doc.length.bytes # 0 /\ doc.length.bytes > maxSizeBytes
    THEN FALSE
    ELSE \E ext \in viewableExtensions : endsWith(toLowerCase(doc.filename), ext)

InitViewable == InitPure("gridfs") /\ input \in FileDocs

viewableRest == <<storeVars, createVars, dbVars, itemType, mounted, queryVars, resultVars,
                  flagVars, deleteVars, showEditorSidebar, uploadVars, downloadingFileId,
                  mutations, lastFetch>>

\* handleViewClick(doc), up to await api.apiDownloadText(...); output is
\* isFileViewable(doc)
ViewClick ==
    /\ ~output.done
    /\ output' = Applied(isFileViewable(input))
    /\ IF isFileViewable(input)
       THEN /\ viewingFileId' = "d1"
            /\ inflight' = Append(inflight, Call("downloadText", "none", 0, "{}", None, 0, "d1"))
            /\ calls' = calls + 1
            /\ emitted' = <<Note(<<"Loading file", "d1">>, "info")>>
       ELSE /\ UNCHANGED <<viewingFileId, inflight, calls>>
            /\ emitted' = <<>>
    /\ UNCHANGED <<input, viewableRest>>
    /\ NoTransport

NextViewable == ViewClick

SpecViewable == InitViewable /\ [][NextViewable]_vars

\* C34: a file is eligible for inline preview only if its extension is in
\* the allow-list and its size is known and under 30 MiB; for an ineligible
\* file the view issues no download request.
C34_EligibleOnlyUnderLimit ==
    output.done =>
        /\ output.value =>
              /\ \E ext \in viewableExtensions : endsWith(toLowerCase(input.filename), ext)
              /\ input.length.known
              /\ input.length.bytes < maxSizeBytes
        /\ ~output.value => inflight = <<>>


(* ---------------------------------------------------------------------- *)
(* url(path) of the transport layer: the path without its leading "/",     *)
(* base64 encoded by btoa, made URL-safe and stripped of padding.  The     *)
(* constant prefix `${API_BASE}/` of the result is left out.               *)
(* ---------------------------------------------------------------------- *)
MaxPathLen == 3
\* "/", "a", "?", "e" with acute accent (Latin-1) and the euro sign (not Latin-1)
PathChars == {47, 97, 63, 233, 8364}
Paths == UNION {[1..n -> PathChars] : n \in 0..MaxPathLen}

\* the character of the base64 alphabet for a 6-bit value
Base64Char(n) ==
    IF n < 26 THEN 65 + n
    ELSE IF n < 52 THEN 97 + (n - 26)
    ELSE IF n < 62 THEN 48 + (n - 52)
    ELSE IF n = 62 THEN 43
    ELSE 47

\* the base64 text of a sequence of bytes, padded with "="
RECURSIVE Base64(_)
Base64(bytes) ==
    IF bytes = <<>> THEN <<>>
    ELSE LET b1 == bytes[1]
             b2 == IF Len(bytes) >= 2 THEN bytes[2] ELSE 0
             b3 == IF Len(bytes) >= 3 THEN bytes[3] ELSE 0
             n == b1 * 65536 + b2 * 256 + b3
             c1 == Base64Char(n \div 262144)
             c2 == Base64Char((n \div 4096) % 64)
             c3 == IF Len(bytes) >= 2 THEN Base64Char((n \div 64) % 64) ELSE 61
             c4 == IF Len(bytes) >= 3 THEN Base64Char(n % 64) ELSE 61
         IN <<c1, c2, c3, c4>> \o Base64(SubSeq(bytes, 4, Len(bytes)))

\* btoa(s): throws InvalidCharacterError when a code unit is above 255
btoa(s) ==
    IF \E i \in 1..Len(s) : s[i] > 255 THEN [ok |-> FALSE]
    ELSE [ok |-> TRUE, text |-> Base64(s)]

\* .replace(/\+/g, '-').replace(/\//g, '_').replace(/=/g, '')
UrlSafe(text) ==
    LET kept == SelectSeq(text, LAMBDA c : c # 61)
    IN [i \in 1..Len(kept) |-> IF kept[i] = 43 THEN 45 ELSE IF kept[i] = 47 THEN 95 ELSE kept[i]]

\* url(path)
url(path) ==
    LET pathWithoutLeadingSlash ==
            IF path # <<>> /\ path[1] = 47 THEN Tail(path) ELSE path
        encoded == btoa(pathWithoutLeadingSlash)
    IN IF encoded.ok THEN [ok |-> TRUE, text |-> UrlSafe(encoded.text)] ELSE encoded

\* the 6-bit value of a character of the URL-safe alphabet
Base64Value(c) ==
    IF c >= 65 /\ c <= 90 THEN c - 65
    ELSE IF c >= 97 /\ c <= 122 THEN c - 97 + 26
    ELSE IF c >= 48 /\ c <= 57 THEN c - 48 + 52
    ELSE IF c = 45 THEN 62
    ELSE 63

\* base64url decoding of a text without padding, each byte read as one
\* character
RECURSIVE DecodePath(_)
DecodePath(text) ==
    IF Len(text) < 2 THEN <<>>
    ELSE LET v1 == Base64Value(text[1])
             v2 == Base64Value(text[2])
             v3 == IF Len(text) >= 3 THEN Base64Value(text[3]) ELSE 0
             v4 == IF Len(text) >= 4 THEN Base64Value(text[4]) ELSE 0
             n == v1 * 262144 + v2 * 4096 + v3 * 64 + v4
             bytes == <<n \div 65536, (n \div 256) % 256, n % 256>>
         IN SubSeq(bytes, 1, IF Len(text) >= 4 THEN 3 ELSE Len(text) - 1)
              \o DecodePath(SubSeq(text, 5, Len(text)))

InitUrl == InitPure("collection") /\ input \in Paths

\* fetch(url(path), ...)
ApplyUrl ==
    /\ ~output.done
    /\ output' = Applied(url(input))
    /\ UNCHANGED <<input, pureRest>>

NextUrl == ApplyUrl

SpecUrl == InitUrl /\ [][NextUrl]_vars

\* C35: encoding a resource path never fails, decoding the encoded path
\* gives back the path, and no other path has the same encoding.
C35_EncodingReversible ==
    output.done =>
        /\ output.value.ok
        /\ DecodePath(output.value.text) = input
        /\ \A other \in Paths : other # input => url(other) # output.value

====
